---- MODULE Spec2Model ----
(***************************************************************************)
(* The conversation engine of the fraud-detection chatbot                  *)
(* (app/services/conversation_engine.py): a session store and the          *)
(* question / answer / retry / complete state machine over the four fixed  *)
(* questions.                                                              *)
(*                                                                         *)
(* Representation.                                                         *)
(*  - A text (a Python str) is a sequence of pieces whose concatenation is *)
(*    the text.  A text received from outside (a user message, a reply of  *)
(*    the language model) has one character per piece, so that strip(),    *)
(*    lower() and len() are computed on it.  A literal of the program is   *)
(*    one piece, and an f-string is the sequence of its pieces.            *)
(*  - A character is the one-character string of it.  A string of a module *)
(*    cannot hold the character 0x60, nor from 0x100 on the characters     *)
(*    with a UTF-16 unit whose low byte is below 0x80: such a character is *)
(*    written by its code point, as "U+0253", and is one piece like any    *)
(*    other character.                                                     *)
(*  - Optional[T] is a set of at most one T: None is {}.                   *)
(*  - A dict is a function whose domain is its key set.                    *)
(*  - Python indexes FRAUD_QUESTIONS from 0, TLA+ sequences from 1:        *)
(*    FRAUD_QUESTIONS[i] of the source is FRAUD_QUESTIONS[i + 1] here.     *)
(***************************************************************************)
EXTENDS Integers, Sequences, FiniteSets, TLC

VARIABLES
    sessions,   \* ConversationEngine.sessions: session_id -> ConversationSession
    now,        \* the wall clock read by time.time(), in seconds
    ticks,      \* how many times the clock has been advanced
    last,       \* the last operation: its inputs, the external calls it made, its result
    streak,     \* per stored session, the run of consecutive answers judged invalid
    analyses,   \* per stored session, the assessments produced for it since its start
    evicted,    \* the ids whose session a sweep removed and no start has stored since
    inflight,   \* the process_response that is waiting for an external call, if any
    threads,    \* per thread running beside the others, the frame of its operation
    FRAUD_QUESTIONS, \* the question catalog, a list of the module
    asked,      \* per counted session, per question, the process_response calls it took
    flask,      \* app.py beside the engine: its sessions dict, its last JSON response, the frames of its handlers
    deps,       \* dependencies.py: its two globals, the engines constructed so far, the ids its routes have started, the requests that arrived beside another
    entries,    \* the key table of ConversationEngine.sessions: its slots, and its keys with deleted ones left empty
    detached,   \* app.py: session dicts no longer stored that a handler still holds
    taken       \* the requests taken so far: the respond requests of app.py, the requests of the routes

vars == <<sessions, now, ticks, last, streak, analyses, evicted, inflight, threads,
         FRAUD_QUESTIONS, asked, flask, deps, entries, detached, taken>>

----------------------------------------------------------------------------
(* Bounds of the model *)

\* The clock is advanced at most MaxTicks times.
MaxTicks == 1

\* The respond requests the threads of app.py take; the requests the routes
\* of app/routes/chat.py take.
MaxRequests == 5

\* The requests sent to app.py while it is handling another, beside the
\* engine; the requests that arrive at the routes of app/routes/chat.py while
\* another is not answered yet.
MaxOverlaps == 1

\* Session identifiers the transport layer passes in.
OneSession == {"s1"}
TwoSessions == {"s1", "s2"}

\* User messages: empty; one letter wrapped in blanks (3 characters, 1 after
\* strip); two letters around a blank; a three-letter answer after a blank.
Messages ==
    { <<>>,
      <<" ", "a", " ">>,
      <<"a", " ", "b">>,
      <<" ", "a", "b", "c">> }

\* The smaller inputs of the two-session specification.
FewMessages ==
    { <<" ", "a", " ">>,
      <<" ", "a", "b", "c">> }

\* The one message of the specification of the sweep.
OneMessage ==
    { <<" ", "a", "b", "c">> }

\* What the chat-completion call of the validator does: it raises, it returns
\* an object without choices[0].message.content, or it returns a content text.
ValidatorOutcomes ==
    { [kind |-> "raise"],
      [kind |-> "malformed"],
      [kind |-> "reply", content |-> <<"t", "r", "u", "e">>],
      [kind |-> "reply", content |-> <<" ", "T", "r", "u", "e", "\n">>],
      [kind |-> "reply", content |-> <<"f", "a", "l", "s", "e">>],
      [kind |-> "reply", content |-> <<"m", "a", "y", "b", "e">>] }

FewValidatorOutcomes ==
    { [kind |-> "reply", content |-> <<" ", "T", "r", "u", "e", "\n">>],
      [kind |-> "reply", content |-> <<"f", "a", "l", "s", "e">>] }

\* The validator's call during an outage of the external service.
UnavailableValidator ==
    { [kind |-> "raise"] }

\* What the chat-completion call of the analyzer does.
AnalyzerOutcomes ==
    { [kind |-> "raise"],
      [kind |-> "malformed"],
      [kind |-> "reply", content |-> <<" ", "L", "O", "W", "\n">>] }

FewAnalyzerOutcomes ==
    { [kind |-> "raise"] }

\* How far one step of the clock moves it: to the edge of the retention
\* window, and one second past it.
TickSteps == {60 * 60, 60 * 60 + 1}

----------------------------------------------------------------------------
(* Python values *)

None == {}
Some(v) == {v}

\* dict[k] = v
DictSet(d, k, v) == (k :> v) @@ d

\* str.strip() removes from both ends every character str.isspace() accepts:
\* 0x09-0x0d, 0x1c-0x1f, the blank, 0x85, 0xa0, 0x1680, 0x2000-0x200a, 0x2028,
\* 0x2029, 0x202f, 0x205f and 0x3000.
Whitespace ==
    {
    "\t", "\n", "", "\f", "\r", "", "", "", "", " ", "", " ",
    " ", "U+2000", "U+2001", "U+2002", "U+2003", "U+2004", "U+2005", "U+2006", "U+2007", "U+2008", "U+2009", "U+200A",
    "U+2028", "U+2029", "U+202F", "U+205F", "U+3000"
    }

RECURSIVE lstrip(_)
lstrip(s) ==
    IF s = <<>> THEN s
    ELSE IF Head(s) \in Whitespace THEN lstrip(Tail(s)) ELSE s

RECURSIVE rstrip(_)
rstrip(s) ==
    IF s = <<>> THEN s
    ELSE IF s[Len(s)] \in Whitespace THEN rstrip(SubSeq(s, 1, Len(s) - 1)) ELSE s

strip(s) == rstrip(lstrip(s))

\* str.lower(): the characters that have a small letter of their own, and at
\* the same position of LowerCase the small letter of each.
UpperCase ==
  <<
    "A", "B", "C", "D", "E", "F", "G", "H", "I", "J", "K", "L",
    "M", "N", "O", "P", "Q", "R", "S", "T", "U", "V", "W", "X",
    "Y", "Z", "À", "Á", "Â", "Ã", "Ä", "Å", "Æ", "Ç", "È", "É",
    "Ê", "Ë", "Ì", "Í", "Î", "Ï", "Ð", "Ñ", "Ò", "Ó", "Ô", "Õ",
    "Ö", "Ø", "Ù", "Ú", "Û", "Ü", "Ý", "Þ", "U+0100", "U+0102", "U+0104", "U+0106",
    "U+0108", "U+010A", "U+010C", "U+010E", "U+0110", "U+0112", "U+0114", "U+0116", "U+0118", "U+011A", "U+011C", "U+011E",
    "U+0120", "U+0122", "U+0124", "U+0126", "U+0128", "U+012A", "U+012C", "U+012E", "U+0132", "U+0134", "U+0136", "U+0139",
    "U+013B", "U+013D", "U+013F", "U+0141", "U+0143", "U+0145", "U+0147", "U+014A", "U+014C", "U+014E", "U+0150", "U+0152",
    "U+0154", "U+0156", "U+0158", "U+015A", "U+015C", "U+015E", "U+0160", "U+0162", "U+0164", "U+0166", "U+0168", "U+016A",
    "U+016C", "U+016E", "U+0170", "U+0172", "U+0174", "U+0176", "U+0178", "U+0179", "U+017B", "U+017D", "Ɓ", "Ƃ",
    "Ƅ", "Ɔ", "Ƈ", "Ɖ", "Ɗ", "Ƌ", "Ǝ", "Ə", "Ɛ", "Ƒ", "Ɠ", "Ɣ",
    "Ɩ", "Ɨ", "Ƙ", "Ɯ", "Ɲ", "Ɵ", "Ơ", "Ƣ", "Ƥ", "Ʀ", "Ƨ", "Ʃ",
    "Ƭ", "Ʈ", "Ư", "Ʊ", "Ʋ", "Ƴ", "Ƶ", "Ʒ", "Ƹ", "Ƽ", "Ǆ", "ǅ",
    "Ǉ", "ǈ", "Ǌ", "ǋ", "Ǎ", "Ǐ", "Ǒ", "Ǔ", "Ǖ", "Ǘ", "Ǚ", "Ǜ",
    "Ǟ", "Ǡ", "Ǣ", "Ǥ", "Ǧ", "Ǩ", "Ǫ", "Ǭ", "Ǯ", "Ǳ", "ǲ", "Ǵ",
    "Ƕ", "Ƿ", "Ǹ", "Ǻ", "Ǽ", "Ǿ", "U+0200", "U+0202", "U+0204", "U+0206", "U+0208", "U+020A",
    "U+020C", "U+020E", "U+0210", "U+0212", "U+0214", "U+0216", "U+0218", "U+021A", "U+021C", "U+021E", "U+0220", "U+0222",
    "U+0224", "U+0226", "U+0228", "U+022A", "U+022C", "U+022E", "U+0230", "U+0232", "U+023A", "U+023B", "U+023D", "U+023E",
    "U+0241", "U+0243", "U+0244", "U+0245", "U+0246", "U+0248", "U+024A", "U+024C", "U+024E", "U+0370", "U+0372", "U+0376",
    "U+037F", "Ά", "Έ", "Ή", "Ί", "Ό", "Ύ", "Ώ", "Α", "Β", "Γ", "Δ",
    "Ε", "Ζ", "Η", "Θ", "Ι", "Κ", "Λ", "Μ", "Ν", "Ξ", "Ο", "Π",
    "Ρ", "Σ", "Τ", "Υ", "Φ", "Χ", "Ψ", "Ω", "Ϊ", "Ϋ", "Ϗ", "Ϙ",
    "Ϛ", "Ϝ", "Ϟ", "Ϡ", "Ϣ", "Ϥ", "Ϧ", "Ϩ", "Ϫ", "Ϭ", "Ϯ", "ϴ",
    "Ϸ", "Ϲ", "Ϻ", "Ͻ", "Ͼ", "Ͽ", "U+0400", "U+0401", "U+0402", "U+0403", "U+0404", "U+0405",
    "U+0406", "U+0407", "U+0408", "U+0409", "U+040A", "U+040B", "U+040C", "U+040D", "U+040E", "U+040F", "U+0410", "U+0411",
    "U+0412", "U+0413", "U+0414", "U+0415", "U+0416", "U+0417", "U+0418", "U+0419", "U+041A", "U+041B", "U+041C", "U+041D",
    "U+041E", "U+041F", "U+0420", "U+0421", "U+0422", "U+0423", "U+0424", "U+0425", "U+0426", "U+0427", "U+0428", "U+0429",
    "U+042A", "U+042B", "U+042C", "U+042D", "U+042E", "U+042F", "U+0460", "U+0462", "U+0464", "U+0466", "U+0468", "U+046A",
    "U+046C", "U+046E", "U+0470", "U+0472", "U+0474", "U+0476", "U+0478", "U+047A", "U+047C", "U+047E", "Ҁ", "Ҋ",
    "Ҍ", "Ҏ", "Ґ", "Ғ", "Ҕ", "Җ", "Ҙ", "Қ", "Ҝ", "Ҟ", "Ҡ", "Ң",
    "Ҥ", "Ҧ", "Ҩ", "Ҫ", "Ҭ", "Ү", "Ұ", "Ҳ", "Ҵ", "Ҷ", "Ҹ", "Һ",
    "Ҽ", "Ҿ", "Ӏ", "Ӂ", "Ӄ", "Ӆ", "Ӈ", "Ӊ", "Ӌ", "Ӎ", "Ӑ", "Ӓ",
    "Ӕ", "Ӗ", "Ә", "Ӛ", "Ӝ", "Ӟ", "Ӡ", "Ӣ", "Ӥ", "Ӧ", "Ө", "Ӫ",
    "Ӭ", "Ӯ", "Ӱ", "Ӳ", "Ӵ", "Ӷ", "Ӹ", "Ӻ", "Ӽ", "Ӿ", "U+0500", "U+0502",
    "U+0504", "U+0506", "U+0508", "U+050A", "U+050C", "U+050E", "U+0510", "U+0512", "U+0514", "U+0516", "U+0518", "U+051A",
    "U+051C", "U+051E", "U+0520", "U+0522", "U+0524", "U+0526", "U+0528", "U+052A", "U+052C", "U+052E", "U+0531", "U+0532",
    "U+0533", "U+0534", "U+0535", "U+0536", "U+0537", "U+0538", "U+0539", "U+053A", "U+053B", "U+053C", "U+053D", "U+053E",
    "U+053F", "U+0540", "U+0541", "U+0542", "U+0543", "U+0544", "U+0545", "U+0546", "U+0547", "U+0548", "U+0549", "U+054A",
    "U+054B", "U+054C", "U+054D", "U+054E", "U+054F", "U+0550", "U+0551", "U+0552", "U+0553", "U+0554", "U+0555", "U+0556",
    "Ⴀ", "Ⴁ", "Ⴂ", "Ⴃ", "Ⴄ", "Ⴅ", "Ⴆ", "Ⴇ", "Ⴈ", "Ⴉ", "Ⴊ", "Ⴋ",
    "Ⴌ", "Ⴍ", "Ⴎ", "Ⴏ", "Ⴐ", "Ⴑ", "Ⴒ", "Ⴓ", "Ⴔ", "Ⴕ", "Ⴖ", "Ⴗ",
    "Ⴘ", "Ⴙ", "Ⴚ", "Ⴛ", "Ⴜ", "Ⴝ", "Ⴞ", "Ⴟ", "Ⴠ", "Ⴡ", "Ⴢ", "Ⴣ",
    "Ⴤ", "Ⴥ", "Ⴧ", "Ⴭ", "Ꭰ", "Ꭱ", "Ꭲ", "Ꭳ", "Ꭴ", "Ꭵ", "Ꭶ", "Ꭷ",
    "Ꭸ", "Ꭹ", "Ꭺ", "Ꭻ", "Ꭼ", "Ꭽ", "Ꭾ", "Ꭿ", "Ꮀ", "Ꮁ", "Ꮂ", "Ꮃ",
    "Ꮄ", "Ꮅ", "Ꮆ", "Ꮇ", "Ꮈ", "Ꮉ", "Ꮊ", "Ꮋ", "Ꮌ", "Ꮍ", "Ꮎ", "Ꮏ",
    "Ꮐ", "Ꮑ", "Ꮒ", "Ꮓ", "Ꮔ", "Ꮕ", "Ꮖ", "Ꮗ", "Ꮘ", "Ꮙ", "Ꮚ", "Ꮛ",
    "Ꮜ", "Ꮝ", "Ꮞ", "Ꮟ", "Ꮠ", "Ꮡ", "Ꮢ", "Ꮣ", "Ꮤ", "Ꮥ", "Ꮦ", "Ꮧ",
    "Ꮨ", "Ꮩ", "Ꮪ", "Ꮫ", "Ꮬ", "Ꮭ", "Ꮮ", "Ꮯ", "Ꮰ", "Ꮱ", "Ꮲ", "Ꮳ",
    "Ꮴ", "Ꮵ", "Ꮶ", "Ꮷ", "Ꮸ", "Ꮹ", "Ꮺ", "Ꮻ", "Ꮼ", "Ꮽ", "Ꮾ", "Ꮿ",
    "Ᏸ", "Ᏹ", "Ᏺ", "Ᏻ", "Ᏼ", "Ᏽ", "Ა", "Ბ", "Გ", "Დ", "Ე", "Ვ",
    "Ზ", "Თ", "Ი", "Კ", "Ლ", "Მ", "Ნ", "Ო", "Პ", "Ჟ", "Რ", "Ს",
    "Ტ", "Უ", "Ფ", "Ქ", "Ღ", "Ყ", "Შ", "Ჩ", "Ც", "Ძ", "Წ", "Ჭ",
    "Ხ", "Ჯ", "Ჰ", "Ჱ", "Ჲ", "Ჳ", "Ჴ", "Ჵ", "Ჶ", "Ჷ", "Ჸ", "Ჹ",
    "Ჺ", "Ჽ", "Ჾ", "Ჿ", "U+1E00", "U+1E02", "U+1E04", "U+1E06", "U+1E08", "U+1E0A", "U+1E0C", "U+1E0E",
    "U+1E10", "U+1E12", "U+1E14", "U+1E16", "U+1E18", "U+1E1A", "U+1E1C", "U+1E1E", "U+1E20", "U+1E22", "U+1E24", "U+1E26",
    "U+1E28", "U+1E2A", "U+1E2C", "U+1E2E", "U+1E30", "U+1E32", "U+1E34", "U+1E36", "U+1E38", "U+1E3A", "U+1E3C", "U+1E3E",
    "U+1E40", "U+1E42", "U+1E44", "U+1E46", "U+1E48", "U+1E4A", "U+1E4C", "U+1E4E", "U+1E50", "U+1E52", "U+1E54", "U+1E56",
    "U+1E58", "U+1E5A", "U+1E5C", "U+1E5E", "U+1E60", "U+1E62", "U+1E64", "U+1E66", "U+1E68", "U+1E6A", "U+1E6C", "U+1E6E",
    "U+1E70", "U+1E72", "U+1E74", "U+1E76", "U+1E78", "U+1E7A", "U+1E7C", "U+1E7E", "Ẁ", "Ẃ", "Ẅ", "Ẇ",
    "Ẉ", "Ẋ", "Ẍ", "Ẏ", "Ẑ", "Ẓ", "Ẕ", "ẞ", "Ạ", "Ả", "Ấ", "Ầ",
    "Ẩ", "Ẫ", "Ậ", "Ắ", "Ằ", "Ẳ", "Ẵ", "Ặ", "Ẹ", "Ẻ", "Ẽ", "Ế",
    "Ề", "Ể", "Ễ", "Ệ", "Ỉ", "Ị", "Ọ", "Ỏ", "Ố", "Ồ", "Ổ", "Ỗ",
    "Ộ", "Ớ", "Ờ", "Ở", "Ỡ", "Ợ", "Ụ", "Ủ", "Ứ", "Ừ", "Ử", "Ữ",
    "Ự", "Ỳ", "Ỵ", "Ỷ", "Ỹ", "Ỻ", "Ỽ", "Ỿ", "U+1F08", "U+1F09", "U+1F0A", "U+1F0B",
    "U+1F0C", "U+1F0D", "U+1F0E", "U+1F0F", "U+1F18", "U+1F19", "U+1F1A", "U+1F1B", "U+1F1C", "U+1F1D", "U+1F28", "U+1F29",
    "U+1F2A", "U+1F2B", "U+1F2C", "U+1F2D", "U+1F2E", "U+1F2F", "U+1F38", "U+1F39", "U+1F3A", "U+1F3B", "U+1F3C", "U+1F3D",
    "U+1F3E", "U+1F3F", "U+1F48", "U+1F49", "U+1F4A", "U+1F4B", "U+1F4C", "U+1F4D", "U+1F59", "U+1F5B", "U+1F5D", "U+1F5F",
    "U+1F68", "U+1F69", "U+1F6A", "U+1F6B", "U+1F6C", "U+1F6D", "U+1F6E", "U+1F6F", "ᾈ", "ᾉ", "ᾊ", "ᾋ",
    "ᾌ", "ᾍ", "ᾎ", "ᾏ", "ᾘ", "ᾙ", "ᾚ", "ᾛ", "ᾜ", "ᾝ", "ᾞ", "ᾟ",
    "ᾨ", "ᾩ", "ᾪ", "ᾫ", "ᾬ", "ᾭ", "ᾮ", "ᾯ", "Ᾰ", "Ᾱ", "Ὰ", "Ά",
    "ᾼ", "Ὲ", "Έ", "Ὴ", "Ή", "ῌ", "Ῐ", "Ῑ", "Ὶ", "Ί", "Ῠ", "Ῡ",
    "Ὺ", "Ύ", "Ῥ", "Ὸ", "Ό", "Ὼ", "Ώ", "ῼ", "U+2126", "U+212A", "U+212B", "U+2132",
    "U+2160", "U+2161", "U+2162", "U+2163", "U+2164", "U+2165", "U+2166", "U+2167", "U+2168", "U+2169", "U+216A", "U+216B",
    "U+216C", "U+216D", "U+216E", "U+216F", "Ↄ", "Ⓐ", "Ⓑ", "Ⓒ", "Ⓓ", "Ⓔ", "Ⓕ", "Ⓖ",
    "Ⓗ", "Ⓘ", "Ⓙ", "Ⓚ", "Ⓛ", "Ⓜ", "Ⓝ", "Ⓞ", "Ⓟ", "Ⓠ", "Ⓡ", "Ⓢ",
    "Ⓣ", "Ⓤ", "Ⓥ", "Ⓦ", "Ⓧ", "Ⓨ", "Ⓩ", "U+2C00", "U+2C01", "U+2C02", "U+2C03", "U+2C04",
    "U+2C05", "U+2C06", "U+2C07", "U+2C08", "U+2C09", "U+2C0A", "U+2C0B", "U+2C0C", "U+2C0D", "U+2C0E", "U+2C0F", "U+2C10",
    "U+2C11", "U+2C12", "U+2C13", "U+2C14", "U+2C15", "U+2C16", "U+2C17", "U+2C18", "U+2C19", "U+2C1A", "U+2C1B", "U+2C1C",
    "U+2C1D", "U+2C1E", "U+2C1F", "U+2C20", "U+2C21", "U+2C22", "U+2C23", "U+2C24", "U+2C25", "U+2C26", "U+2C27", "U+2C28",
    "U+2C29", "U+2C2A", "U+2C2B", "U+2C2C", "U+2C2D", "U+2C2E", "U+2C2F", "U+2C60", "U+2C62", "U+2C63", "U+2C64", "U+2C67",
    "U+2C69", "U+2C6B", "U+2C6D", "U+2C6E", "U+2C6F", "U+2C70", "U+2C72", "U+2C75", "U+2C7E", "U+2C7F", "Ⲁ", "Ⲃ",
    "Ⲅ", "Ⲇ", "Ⲉ", "Ⲋ", "Ⲍ", "Ⲏ", "Ⲑ", "Ⲓ", "Ⲕ", "Ⲗ", "Ⲙ", "Ⲛ",
    "Ⲝ", "Ⲟ", "Ⲡ", "Ⲣ", "Ⲥ", "Ⲧ", "Ⲩ", "Ⲫ", "Ⲭ", "Ⲯ", "Ⲱ", "Ⲳ",
    "Ⲵ", "Ⲷ", "Ⲹ", "Ⲻ", "Ⲽ", "Ⲿ", "Ⳁ", "Ⳃ", "Ⳅ", "Ⳇ", "Ⳉ", "Ⳋ",
    "Ⳍ", "Ⳏ", "Ⳑ", "Ⳓ", "Ⳕ", "Ⳗ", "Ⳙ", "Ⳛ", "Ⳝ", "Ⳟ", "Ⳡ", "Ⳣ",
    "Ⳬ", "Ⳮ", "Ⳳ", "U+A640", "U+A642", "U+A644", "U+A646", "U+A648", "U+A64A", "U+A64C", "U+A64E", "U+A650",
    "U+A652", "U+A654", "U+A656", "U+A658", "U+A65A", "U+A65C", "U+A65E", "U+A660", "U+A662", "U+A664", "U+A666", "U+A668",
    "U+A66A", "U+A66C", "Ꚁ", "Ꚃ", "Ꚅ", "Ꚇ", "Ꚉ", "Ꚋ", "Ꚍ", "Ꚏ", "Ꚑ", "Ꚓ",
    "Ꚕ", "Ꚗ", "Ꚙ", "Ꚛ", "U+A722", "U+A724", "U+A726", "U+A728", "U+A72A", "U+A72C", "U+A72E", "U+A732",
    "U+A734", "U+A736", "U+A738", "U+A73A", "U+A73C", "U+A73E", "U+A740", "U+A742", "U+A744", "U+A746", "U+A748", "U+A74A",
    "U+A74C", "U+A74E", "U+A750", "U+A752", "U+A754", "U+A756", "U+A758", "U+A75A", "U+A75C", "U+A75E", "U+A760", "U+A762",
    "U+A764", "U+A766", "U+A768", "U+A76A", "U+A76C", "U+A76E", "U+A779", "U+A77B", "U+A77D", "U+A77E", "Ꞁ", "Ꞃ",
    "Ꞅ", "Ꞇ", "Ꞌ", "Ɥ", "Ꞑ", "Ꞓ", "Ꞗ", "Ꞙ", "Ꞛ", "Ꞝ", "Ꞟ", "Ꞡ",
    "Ꞣ", "Ꞥ", "Ꞧ", "Ꞩ", "Ɦ", "Ɜ", "Ɡ", "Ɬ", "Ɪ", "Ʞ", "Ʇ", "Ʝ",
    "Ꭓ", "Ꞵ", "Ꞷ", "Ꞹ", "Ꞻ", "Ꞽ", "Ꞿ", "Ꟁ", "Ꟃ", "Ꞔ", "Ʂ", "Ᶎ",
    "Ꟈ", "Ꟊ", "Ꟑ", "Ꟗ", "Ꟙ", "Ꟶ", "U+FF21", "U+FF22", "U+FF23", "U+FF24", "U+FF25", "U+FF26",
    "U+FF27", "U+FF28", "U+FF29", "U+FF2A", "U+FF2B", "U+FF2C", "U+FF2D", "U+FF2E", "U+FF2F", "U+FF30", "U+FF31", "U+FF32",
    "U+FF33", "U+FF34", "U+FF35", "U+FF36", "U+FF37", "U+FF38", "U+FF39", "U+FF3A", "U+10400", "U+10401", "U+10402", "U+10403",
    "U+10404", "U+10405", "U+10406", "U+10407", "U+10408", "U+10409", "U+1040A", "U+1040B", "U+1040C", "U+1040D", "U+1040E", "U+1040F",
    "U+10410", "U+10411", "U+10412", "U+10413", "U+10414", "U+10415", "U+10416", "U+10417", "U+10418", "U+10419", "U+1041A", "U+1041B",
    "U+1041C", "U+1041D", "U+1041E", "U+1041F", "U+10420", "U+10421", "U+10422", "U+10423", "U+10424", "U+10425", "U+10426", "U+10427",
    "U+104B0", "U+104B1", "U+104B2", "U+104B3", "U+104B4", "U+104B5", "U+104B6", "U+104B7", "U+104B8", "U+104B9", "U+104BA", "U+104BB",
    "U+104BC", "U+104BD", "U+104BE", "U+104BF", "U+104C0", "U+104C1", "U+104C2", "U+104C3", "U+104C4", "U+104C5", "U+104C6", "U+104C7",
    "U+104C8", "U+104C9", "U+104CA", "U+104CB", "U+104CC", "U+104CD", "U+104CE", "U+104CF", "U+104D0", "U+104D1", "U+104D2", "U+104D3",
    "U+10570", "U+10571", "U+10572", "U+10573", "U+10574", "U+10575", "U+10576", "U+10577", "U+10578", "U+10579", "U+1057A", "U+1057C",
    "U+1057D", "U+1057E", "U+1057F", "U+10580", "U+10581", "U+10582", "U+10583", "U+10584", "U+10585", "U+10586", "U+10587", "U+10588",
    "U+10589", "U+1058A", "U+1058C", "U+1058D", "U+1058E", "U+1058F", "U+10590", "U+10591", "U+10592", "U+10594", "U+10595", "U+10C80",
    "U+10C81", "U+10C82", "U+10C83", "U+10C84", "U+10C85", "U+10C86", "U+10C87", "U+10C88", "U+10C89", "U+10C8A", "U+10C8B", "U+10C8C",
    "U+10C8D", "U+10C8E", "U+10C8F", "U+10C90", "U+10C91", "U+10C92", "U+10C93", "U+10C94", "U+10C95", "U+10C96", "U+10C97", "U+10C98",
    "U+10C99", "U+10C9A", "U+10C9B", "U+10C9C", "U+10C9D", "U+10C9E", "U+10C9F", "U+10CA0", "U+10CA1", "U+10CA2", "U+10CA3", "U+10CA4",
    "U+10CA5", "U+10CA6", "U+10CA7", "U+10CA8", "U+10CA9", "U+10CAA", "U+10CAB", "U+10CAC", "U+10CAD", "U+10CAE", "U+10CAF", "U+10CB0",
    "U+10CB1", "U+10CB2", "U+118A0", "U+118A1", "U+118A2", "U+118A3", "U+118A4", "U+118A5", "U+118A6", "U+118A7", "U+118A8", "U+118A9",
    "U+118AA", "U+118AB", "U+118AC", "U+118AD", "U+118AE", "U+118AF", "U+118B0", "U+118B1", "U+118B2", "U+118B3", "U+118B4", "U+118B5",
    "U+118B6", "U+118B7", "U+118B8", "U+118B9", "U+118BA", "U+118BB", "U+118BC", "U+118BD", "U+118BE", "U+118BF", "U+16E40", "U+16E41",
    "U+16E42", "U+16E43", "U+16E44", "U+16E45", "U+16E46", "U+16E47", "U+16E48", "U+16E49", "U+16E4A", "U+16E4B", "U+16E4C", "U+16E4D",
    "U+16E4E", "U+16E4F", "U+16E50", "U+16E51", "U+16E52", "U+16E53", "U+16E54", "U+16E55", "U+16E56", "U+16E57", "U+16E58", "U+16E59",
    "U+16E5A", "U+16E5B", "U+16E5C", "U+16E5D", "U+16E5E", "U+16E5F", "U+1E900", "U+1E901", "U+1E902", "U+1E903", "U+1E904", "U+1E905",
    "U+1E906", "U+1E907", "U+1E908", "U+1E909", "U+1E90A", "U+1E90B", "U+1E90C", "U+1E90D", "U+1E90E", "U+1E90F", "U+1E910", "U+1E911",
    "U+1E912", "U+1E913", "U+1E914", "U+1E915", "U+1E916", "U+1E917", "U+1E918", "U+1E919", "U+1E91A", "U+1E91B", "U+1E91C", "U+1E91D",
    "U+1E91E", "U+1E91F", "U+1E920", "U+1E921"
  >>

LowerCase ==
  <<
    "a", "b", "c", "d", "e", "f", "g", "h", "i", "j", "k", "l",
    "m", "n", "o", "p", "q", "r", "s", "t", "u", "v", "w", "x",
    "y", "z", "à", "á", "â", "ã", "ä", "å", "æ", "ç", "è", "é",
    "ê", "ë", "ì", "í", "î", "ï", "ð", "ñ", "ò", "ó", "ô", "õ",
    "ö", "ø", "ù", "ú", "û", "ü", "ý", "þ", "U+0101", "U+0103", "U+0105", "U+0107",
    "U+0109", "U+010B", "U+010D", "U+010F", "U+0111", "U+0113", "U+0115", "U+0117", "U+0119", "U+011B", "U+011D", "U+011F",
    "U+0121", "U+0123", "U+0125", "U+0127", "U+0129", "U+012B", "U+012D", "U+012F", "U+0133", "U+0135", "U+0137", "U+013A",
    "U+013C", "U+013E", "U+0140", "U+0142", "U+0144", "U+0146", "U+0148", "U+014B", "U+014D", "U+014F", "U+0151", "U+0153",
    "U+0155", "U+0157", "U+0159", "U+015B", "U+015D", "U+015F", "U+0161", "U+0163", "U+0165", "U+0167", "U+0169", "U+016B",
    "U+016D", "U+016F", "U+0171", "U+0173", "U+0175", "U+0177", "ÿ", "U+017A", "U+017C", "U+017E", "U+0253", "ƃ",
    "ƅ", "U+0254", "ƈ", "U+0256", "U+0257", "ƌ", "ǝ", "U+0259", "U+025B", "ƒ", "U+0260", "U+0263",
    "U+0269", "U+0268", "ƙ", "U+026F", "U+0272", "U+0275", "ơ", "ƣ", "ƥ", "ʀ", "ƨ", "ʃ",
    "ƭ", "ʈ", "ư", "ʊ", "ʋ", "ƴ", "ƶ", "ʒ", "ƹ", "ƽ", "ǆ", "ǆ",
    "ǉ", "ǉ", "ǌ", "ǌ", "ǎ", "ǐ", "ǒ", "ǔ", "ǖ", "ǘ", "ǚ", "ǜ",
    "ǟ", "ǡ", "ǣ", "ǥ", "ǧ", "ǩ", "ǫ", "ǭ", "ǯ", "ǳ", "ǳ", "ǵ",
    "ƕ", "ƿ", "ǹ", "ǻ", "ǽ", "ǿ", "U+0201", "U+0203", "U+0205", "U+0207", "U+0209", "U+020B",
    "U+020D", "U+020F", "U+0211", "U+0213", "U+0215", "U+0217", "U+0219", "U+021B", "U+021D", "U+021F", "ƞ", "U+0223",
    "U+0225", "U+0227", "U+0229", "U+022B", "U+022D", "U+022F", "U+0231", "U+0233", "U+2C65", "U+023C", "ƚ", "U+2C66",
    "U+0242", "ƀ", "ʉ", "ʌ", "U+0247", "U+0249", "U+024B", "U+024D", "U+024F", "U+0371", "U+0373", "U+0377",
    "ϳ", "ά", "έ", "ή", "ί", "ό", "ύ", "ώ", "α", "β", "γ", "δ",
    "ε", "ζ", "η", "θ", "ι", "κ", "λ", "μ", "ν", "ξ", "ο", "π",
    "ρ", "σ", "τ", "υ", "φ", "χ", "ψ", "ω", "ϊ", "ϋ", "ϗ", "ϙ",
    "ϛ", "ϝ", "ϟ", "ϡ", "ϣ", "ϥ", "ϧ", "ϩ", "ϫ", "ϭ", "ϯ", "θ",
    "ϸ", "ϲ", "ϻ", "U+037B", "U+037C", "U+037D", "U+0450", "U+0451", "U+0452", "U+0453", "U+0454", "U+0455",
    "U+0456", "U+0457", "U+0458", "U+0459", "U+045A", "U+045B", "U+045C", "U+045D", "U+045E", "U+045F", "U+0430", "U+0431",
    "U+0432", "U+0433", "U+0434", "U+0435", "U+0436", "U+0437", "U+0438", "U+0439", "U+043A", "U+043B", "U+043C", "U+043D",
    "U+043E", "U+043F", "U+0440", "U+0441", "U+0442", "U+0443", "U+0444", "U+0445", "U+0446", "U+0447", "U+0448", "U+0449",
    "U+044A", "U+044B", "U+044C", "U+044D", "U+044E", "U+044F", "U+0461", "U+0463", "U+0465", "U+0467", "U+0469", "U+046B",
    "U+046D", "U+046F", "U+0471", "U+0473", "U+0475", "U+0477", "U+0479", "U+047B", "U+047D", "U+047F", "ҁ", "ҋ",
    "ҍ", "ҏ", "ґ", "ғ", "ҕ", "җ", "ҙ", "қ", "ҝ", "ҟ", "ҡ", "ң",
    "ҥ", "ҧ", "ҩ", "ҫ", "ҭ", "ү", "ұ", "ҳ", "ҵ", "ҷ", "ҹ", "һ",
    "ҽ", "ҿ", "ӏ", "ӂ", "ӄ", "ӆ", "ӈ", "ӊ", "ӌ", "ӎ", "ӑ", "ӓ",
    "ӕ", "ӗ", "ә", "ӛ", "ӝ", "ӟ", "ӡ", "ӣ", "ӥ", "ӧ", "ө", "ӫ",
    "ӭ", "ӯ", "ӱ", "ӳ", "ӵ", "ӷ", "ӹ", "ӻ", "ӽ", "ӿ", "U+0501", "U+0503",
    "U+0505", "U+0507", "U+0509", "U+050B", "U+050D", "U+050F", "U+0511", "U+0513", "U+0515", "U+0517", "U+0519", "U+051B",
    "U+051D", "U+051F", "U+0521", "U+0523", "U+0525", "U+0527", "U+0529", "U+052B", "U+052D", "U+052F", "U+0561", "U+0562",
    "U+0563", "U+0564", "U+0565", "U+0566", "U+0567", "U+0568", "U+0569", "U+056A", "U+056B", "U+056C", "U+056D", "U+056E",
    "U+056F", "U+0570", "U+0571", "U+0572", "U+0573", "U+0574", "U+0575", "U+0576", "U+0577", "U+0578", "U+0579", "U+057A",
    "U+057B", "U+057C", "U+057D", "U+057E", "U+057F", "ր", "ց", "ւ", "փ", "ք", "օ", "ֆ",
    "U+2D00", "U+2D01", "U+2D02", "U+2D03", "U+2D04", "U+2D05", "U+2D06", "U+2D07", "U+2D08", "U+2D09", "U+2D0A", "U+2D0B",
    "U+2D0C", "U+2D0D", "U+2D0E", "U+2D0F", "U+2D10", "U+2D11", "U+2D12", "U+2D13", "U+2D14", "U+2D15", "U+2D16", "U+2D17",
    "U+2D18", "U+2D19", "U+2D1A", "U+2D1B", "U+2D1C", "U+2D1D", "U+2D1E", "U+2D1F", "U+2D20", "U+2D21", "U+2D22", "U+2D23",
    "U+2D24", "U+2D25", "U+2D27", "U+2D2D", "U+AB70", "U+AB71", "U+AB72", "U+AB73", "U+AB74", "U+AB75", "U+AB76", "U+AB77",
    "U+AB78", "U+AB79", "U+AB7A", "U+AB7B", "U+AB7C", "U+AB7D", "U+AB7E", "U+AB7F", "ꮀ", "ꮁ", "ꮂ", "ꮃ",
    "ꮄ", "ꮅ", "ꮆ", "ꮇ", "ꮈ", "ꮉ", "ꮊ", "ꮋ", "ꮌ", "ꮍ", "ꮎ", "ꮏ",
    "ꮐ", "ꮑ", "ꮒ", "ꮓ", "ꮔ", "ꮕ", "ꮖ", "ꮗ", "ꮘ", "ꮙ", "ꮚ", "ꮛ",
    "ꮜ", "ꮝ", "ꮞ", "ꮟ", "ꮠ", "ꮡ", "ꮢ", "ꮣ", "ꮤ", "ꮥ", "ꮦ", "ꮧ",
    "ꮨ", "ꮩ", "ꮪ", "ꮫ", "ꮬ", "ꮭ", "ꮮ", "ꮯ", "ꮰ", "ꮱ", "ꮲ", "ꮳ",
    "ꮴ", "ꮵ", "ꮶ", "ꮷ", "ꮸ", "ꮹ", "ꮺ", "ꮻ", "ꮼ", "ꮽ", "ꮾ", "ꮿ",
    "ᏸ", "ᏹ", "ᏺ", "ᏻ", "ᏼ", "ᏽ", "ა", "ბ", "გ", "დ", "ე", "ვ",
    "ზ", "თ", "ი", "კ", "ლ", "მ", "ნ", "ო", "პ", "ჟ", "რ", "ს",
    "ტ", "უ", "ფ", "ქ", "ღ", "ყ", "შ", "ჩ", "ც", "ძ", "წ", "ჭ",
    "ხ", "ჯ", "ჰ", "ჱ", "ჲ", "ჳ", "ჴ", "ჵ", "ჶ", "ჷ", "ჸ", "ჹ",
    "ჺ", "ჽ", "ჾ", "ჿ", "U+1E01", "U+1E03", "U+1E05", "U+1E07", "U+1E09", "U+1E0B", "U+1E0D", "U+1E0F",
    "U+1E11", "U+1E13", "U+1E15", "U+1E17", "U+1E19", "U+1E1B", "U+1E1D", "U+1E1F", "U+1E21", "U+1E23", "U+1E25", "U+1E27",
    "U+1E29", "U+1E2B", "U+1E2D", "U+1E2F", "U+1E31", "U+1E33", "U+1E35", "U+1E37", "U+1E39", "U+1E3B", "U+1E3D", "U+1E3F",
    "U+1E41", "U+1E43", "U+1E45", "U+1E47", "U+1E49", "U+1E4B", "U+1E4D", "U+1E4F", "U+1E51", "U+1E53", "U+1E55", "U+1E57",
    "U+1E59", "U+1E5B", "U+1E5D", "U+1E5F", "U+1E61", "U+1E63", "U+1E65", "U+1E67", "U+1E69", "U+1E6B", "U+1E6D", "U+1E6F",
    "U+1E71", "U+1E73", "U+1E75", "U+1E77", "U+1E79", "U+1E7B", "U+1E7D", "U+1E7F", "ẁ", "ẃ", "ẅ", "ẇ",
    "ẉ", "ẋ", "ẍ", "ẏ", "ẑ", "ẓ", "ẕ", "ß", "ạ", "ả", "ấ", "ầ",
    "ẩ", "ẫ", "ậ", "ắ", "ằ", "ẳ", "ẵ", "ặ", "ẹ", "ẻ", "ẽ", "ế",
    "ề", "ể", "ễ", "ệ", "ỉ", "ị", "ọ", "ỏ", "ố", "ồ", "ổ", "ỗ",
    "ộ", "ớ", "ờ", "ở", "ỡ", "ợ", "ụ", "ủ", "ứ", "ừ", "ử", "ữ",
    "ự", "ỳ", "ỵ", "ỷ", "ỹ", "ỻ", "ỽ", "ỿ", "U+1F00", "U+1F01", "U+1F02", "U+1F03",
    "U+1F04", "U+1F05", "U+1F06", "U+1F07", "U+1F10", "U+1F11", "U+1F12", "U+1F13", "U+1F14", "U+1F15", "U+1F20", "U+1F21",
    "U+1F22", "U+1F23", "U+1F24", "U+1F25", "U+1F26", "U+1F27", "U+1F30", "U+1F31", "U+1F32", "U+1F33", "U+1F34", "U+1F35",
    "U+1F36", "U+1F37", "U+1F40", "U+1F41", "U+1F42", "U+1F43", "U+1F44", "U+1F45", "U+1F51", "U+1F53", "U+1F55", "U+1F57",
    "U+1F60", "U+1F61", "U+1F62", "U+1F63", "U+1F64", "U+1F65", "U+1F66", "U+1F67", "ᾀ", "ᾁ", "ᾂ", "ᾃ",
    "ᾄ", "ᾅ", "ᾆ", "ᾇ", "ᾐ", "ᾑ", "ᾒ", "ᾓ", "ᾔ", "ᾕ", "ᾖ", "ᾗ",
    "ᾠ", "ᾡ", "ᾢ", "ᾣ", "ᾤ", "ᾥ", "ᾦ", "ᾧ", "ᾰ", "ᾱ", "U+1F70", "U+1F71",
    "ᾳ", "U+1F72", "U+1F73", "U+1F74", "U+1F75", "ῃ", "ῐ", "ῑ", "U+1F76", "U+1F77", "ῠ", "ῡ",
    "U+1F7A", "U+1F7B", "ῥ", "U+1F78", "U+1F79", "U+1F7C", "U+1F7D", "ῳ", "ω", "k", "å", "U+214E",
    "U+2170", "U+2171", "U+2172", "U+2173", "U+2174", "U+2175", "U+2176", "U+2177", "U+2178", "U+2179", "U+217A", "U+217B",
    "U+217C", "U+217D", "U+217E", "U+217F", "ↄ", "ⓐ", "ⓑ", "ⓒ", "ⓓ", "ⓔ", "ⓕ", "ⓖ",
    "ⓗ", "ⓘ", "ⓙ", "ⓚ", "ⓛ", "ⓜ", "ⓝ", "ⓞ", "ⓟ", "ⓠ", "ⓡ", "ⓢ",
    "ⓣ", "ⓤ", "ⓥ", "ⓦ", "ⓧ", "ⓨ", "ⓩ", "U+2C30", "U+2C31", "U+2C32", "U+2C33", "U+2C34",
    "U+2C35", "U+2C36", "U+2C37", "U+2C38", "U+2C39", "U+2C3A", "U+2C3B", "U+2C3C", "U+2C3D", "U+2C3E", "U+2C3F", "U+2C40",
    "U+2C41", "U+2C42", "U+2C43", "U+2C44", "U+2C45", "U+2C46", "U+2C47", "U+2C48", "U+2C49", "U+2C4A", "U+2C4B", "U+2C4C",
    "U+2C4D", "U+2C4E", "U+2C4F", "U+2C50", "U+2C51", "U+2C52", "U+2C53", "U+2C54", "U+2C55", "U+2C56", "U+2C57", "U+2C58",
    "U+2C59", "U+2C5A", "U+2C5B", "U+2C5C", "U+2C5D", "U+2C5E", "U+2C5F", "U+2C61", "U+026B", "U+1D7D", "U+027D", "U+2C68",
    "U+2C6A", "U+2C6C", "U+0251", "U+0271", "U+0250", "U+0252", "U+2C73", "U+2C76", "U+023F", "U+0240", "ⲁ", "ⲃ",
    "ⲅ", "ⲇ", "ⲉ", "ⲋ", "ⲍ", "ⲏ", "ⲑ", "ⲓ", "ⲕ", "ⲗ", "ⲙ", "ⲛ",
    "ⲝ", "ⲟ", "ⲡ", "ⲣ", "ⲥ", "ⲧ", "ⲩ", "ⲫ", "ⲭ", "ⲯ", "ⲱ", "ⲳ",
    "ⲵ", "ⲷ", "ⲹ", "ⲻ", "ⲽ", "ⲿ", "ⳁ", "ⳃ", "ⳅ", "ⳇ", "ⳉ", "ⳋ",
    "ⳍ", "ⳏ", "ⳑ", "ⳓ", "ⳕ", "ⳗ", "ⳙ", "ⳛ", "ⳝ", "ⳟ", "ⳡ", "ⳣ",
    "ⳬ", "ⳮ", "ⳳ", "U+A641", "U+A643", "U+A645", "U+A647", "U+A649", "U+A64B", "U+A64D", "U+A64F", "U+A651",
    "U+A653", "U+A655", "U+A657", "U+A659", "U+A65B", "U+A65D", "U+A65F", "U+A661", "U+A663", "U+A665", "U+A667", "U+A669",
    "U+A66B", "U+A66D", "ꚁ", "ꚃ", "ꚅ", "ꚇ", "ꚉ", "ꚋ", "ꚍ", "ꚏ", "ꚑ", "ꚓ",
    "ꚕ", "ꚗ", "ꚙ", "ꚛ", "U+A723", "U+A725", "U+A727", "U+A729", "U+A72B", "U+A72D", "U+A72F", "U+A733",
    "U+A735", "U+A737", "U+A739", "U+A73B", "U+A73D", "U+A73F", "U+A741", "U+A743", "U+A745", "U+A747", "U+A749", "U+A74B",
    "U+A74D", "U+A74F", "U+A751", "U+A753", "U+A755", "U+A757", "U+A759", "U+A75B", "U+A75D", "U+A75F", "U+A761", "U+A763",
    "U+A765", "U+A767", "U+A769", "U+A76B", "U+A76D", "U+A76F", "U+A77A", "U+A77C", "U+1D79", "U+A77F", "ꞁ", "ꞃ",
    "ꞅ", "ꞇ", "ꞌ", "U+0265", "ꞑ", "ꞓ", "ꞗ", "ꞙ", "ꞛ", "ꞝ", "ꞟ", "ꞡ",
    "ꞣ", "ꞥ", "ꞧ", "ꞩ", "U+0266", "U+025C", "U+0261", "U+026C", "U+026A", "ʞ", "ʇ", "ʝ",
    "U+AB53", "ꞵ", "ꞷ", "ꞹ", "ꞻ", "ꞽ", "ꞿ", "ꟁ", "ꟃ", "ꞔ", "ʂ", "ᶎ",
    "ꟈ", "ꟊ", "ꟑ", "ꟗ", "ꟙ", "ꟶ", "U+FF41", "U+FF42", "U+FF43", "U+FF44", "U+FF45", "U+FF46",
    "U+FF47", "U+FF48", "U+FF49", "U+FF4A", "U+FF4B", "U+FF4C", "U+FF4D", "U+FF4E", "U+FF4F", "U+FF50", "U+FF51", "U+FF52",
    "U+FF53", "U+FF54", "U+FF55", "U+FF56", "U+FF57", "U+FF58", "U+FF59", "U+FF5A", "U+10428", "U+10429", "U+1042A", "U+1042B",
    "U+1042C", "U+1042D", "U+1042E", "U+1042F", "U+10430", "U+10431", "U+10432", "U+10433", "U+10434", "U+10435", "U+10436", "U+10437",
    "U+10438", "U+10439", "U+1043A", "U+1043B", "U+1043C", "U+1043D", "U+1043E", "U+1043F", "U+10440", "U+10441", "U+10442", "U+10443",
    "U+10444", "U+10445", "U+10446", "U+10447", "U+10448", "U+10449", "U+1044A", "U+1044B", "U+1044C", "U+1044D", "U+1044E", "U+1044F",
    "U+104D8", "U+104D9", "U+104DA", "U+104DB", "U+104DC", "U+104DD", "U+104DE", "U+104DF", "U+104E0", "U+104E1", "U+104E2", "U+104E3",
    "U+104E4", "U+104E5", "U+104E6", "U+104E7", "U+104E8", "U+104E9", "U+104EA", "U+104EB", "U+104EC", "U+104ED", "U+104EE", "U+104EF",
    "U+104F0", "U+104F1", "U+104F2", "U+104F3", "U+104F4", "U+104F5", "U+104F6", "U+104F7", "U+104F8", "U+104F9", "U+104FA", "U+104FB",
    "U+10597", "U+10598", "U+10599", "U+1059A", "U+1059B", "U+1059C", "U+1059D", "U+1059E", "U+1059F", "U+105A0", "U+105A1", "U+105A3",
    "U+105A4", "U+105A5", "U+105A6", "U+105A7", "U+105A8", "U+105A9", "U+105AA", "U+105AB", "U+105AC", "U+105AD", "U+105AE", "U+105AF",
    "U+105B0", "U+105B1", "U+105B3", "U+105B4", "U+105B5", "U+105B6", "U+105B7", "U+105B8", "U+105B9", "U+105BB", "U+105BC", "U+10CC0",
    "U+10CC1", "U+10CC2", "U+10CC3", "U+10CC4", "U+10CC5", "U+10CC6", "U+10CC7", "U+10CC8", "U+10CC9", "U+10CCA", "U+10CCB", "U+10CCC",
    "U+10CCD", "U+10CCE", "U+10CCF", "U+10CD0", "U+10CD1", "U+10CD2", "U+10CD3", "U+10CD4", "U+10CD5", "U+10CD6", "U+10CD7", "U+10CD8",
    "U+10CD9", "U+10CDA", "U+10CDB", "U+10CDC", "U+10CDD", "U+10CDE", "U+10CDF", "U+10CE0", "U+10CE1", "U+10CE2", "U+10CE3", "U+10CE4",
    "U+10CE5", "U+10CE6", "U+10CE7", "U+10CE8", "U+10CE9", "U+10CEA", "U+10CEB", "U+10CEC", "U+10CED", "U+10CEE", "U+10CEF", "U+10CF0",
    "U+10CF1", "U+10CF2", "U+118C0", "U+118C1", "U+118C2", "U+118C3", "U+118C4", "U+118C5", "U+118C6", "U+118C7", "U+118C8", "U+118C9",
    "U+118CA", "U+118CB", "U+118CC", "U+118CD", "U+118CE", "U+118CF", "U+118D0", "U+118D1", "U+118D2", "U+118D3", "U+118D4", "U+118D5",
    "U+118D6", "U+118D7", "U+118D8", "U+118D9", "U+118DA", "U+118DB", "U+118DC", "U+118DD", "U+118DE", "U+118DF", "U+16E60", "U+16E61",
    "U+16E62", "U+16E63", "U+16E64", "U+16E65", "U+16E66", "U+16E67", "U+16E68", "U+16E69", "U+16E6A", "U+16E6B", "U+16E6C", "U+16E6D",
    "U+16E6E", "U+16E6F", "U+16E70", "U+16E71", "U+16E72", "U+16E73", "U+16E74", "U+16E75", "U+16E76", "U+16E77", "U+16E78", "U+16E79",
    "U+16E7A", "U+16E7B", "U+16E7C", "U+16E7D", "U+16E7E", "U+16E7F", "U+1E922", "U+1E923", "U+1E924", "U+1E925", "U+1E926", "U+1E927",
    "U+1E928", "U+1E929", "U+1E92A", "U+1E92B", "U+1E92C", "U+1E92D", "U+1E92E", "U+1E92F", "U+1E930", "U+1E931", "U+1E932", "U+1E933",
    "U+1E934", "U+1E935", "U+1E936", "U+1E937", "U+1E938", "U+1E939", "U+1E93A", "U+1E93B", "U+1E93C", "U+1E93D", "U+1E93E", "U+1E93F",
    "U+1E940", "U+1E941", "U+1E942", "U+1E943"
  >>

\* The characters str.lower() passes over when it looks for the letters
\* around a capital sigma.
CaseIgnorable ==
  {
    "'", ".", ":", "^", "U+0060", "¨", "­", "¯", "´", "·", "¸", "ʰ",
    "ʱ", "ʲ", "ʳ", "ʴ", "ʵ", "ʶ", "ʷ", "ʸ", "ʹ", "ʺ", "ʻ", "ʼ",
    "ʽ", "ʾ", "ʿ", "ˀ", "ˁ", "˂", "˃", "˄", "˅", "ˆ", "ˇ", "ˈ",
    "ˉ", "ˊ", "ˋ", "ˌ", "ˍ", "ˎ", "ˏ", "ː", "ˑ", "˒", "˓", "˔",
    "˕", "˖", "˗", "˘", "˙", "˚", "˛", "˜", "˝", "˞", "˟", "ˠ",
    "ˡ", "ˢ", "ˣ", "ˤ", "˥", "˦", "˧", "˨", "˩", "˪", "˫", "ˬ",
    "˭", "ˮ", "˯", "˰", "˱", "˲", "˳", "˴", "˵", "˶", "˷", "˸",
    "˹", "˺", "˻", "˼", "˽", "˾", "˿", "U+0300", "U+0301", "U+0302", "U+0303", "U+0304",
    "U+0305", "U+0306", "U+0307", "U+0308", "U+0309", "U+030A", "U+030B", "U+030C", "U+030D", "U+030E", "U+030F", "U+0310",
    "U+0311", "U+0312", "U+0313", "U+0314", "U+0315", "U+0316", "U+0317", "U+0318", "U+0319", "U+031A", "U+031B", "U+031C",
    "U+031D", "U+031E", "U+031F", "U+0320", "U+0321", "U+0322", "U+0323", "U+0324", "U+0325", "U+0326", "U+0327", "U+0328",
    "U+0329", "U+032A", "U+032B", "U+032C", "U+032D", "U+032E", "U+032F", "U+0330", "U+0331", "U+0332", "U+0333", "U+0334",
    "U+0335", "U+0336", "U+0337", "U+0338", "U+0339", "U+033A", "U+033B", "U+033C", "U+033D", "U+033E", "U+033F", "U+0340",
    "U+0341", "U+0342", "U+0343", "U+0344", "U+0345", "U+0346", "U+0347", "U+0348", "U+0349", "U+034A", "U+034B", "U+034C",
    "U+034D", "U+034E", "U+034F", "U+0350", "U+0351", "U+0352", "U+0353", "U+0354", "U+0355", "U+0356", "U+0357", "U+0358",
    "U+0359", "U+035A", "U+035B", "U+035C", "U+035D", "U+035E", "U+035F", "U+0360", "U+0361", "U+0362", "U+0363", "U+0364",
    "U+0365", "U+0366", "U+0367", "U+0368", "U+0369", "U+036A", "U+036B", "U+036C", "U+036D", "U+036E", "U+036F", "U+0374",
    "U+0375", "U+037A", "΄", "΅", "·", "҃", "҄", "҅", "҆", "҇", "҈", "҉",
    "U+0559", "U+055F", "֑", "֒", "֓", "֔", "֕", "֖", "֗", "֘", "֙", "֚",
    "֛", "֜", "֝", "֞", "֟", "֠", "֡", "֢", "֣", "֤", "֥", "֦",
    "֧", "֨", "֩", "֪", "֫", "֬", "֭", "֮", "֯", "ְ", "ֱ", "ֲ",
    "ֳ", "ִ", "ֵ", "ֶ", "ַ", "ָ", "ֹ", "ֺ", "ֻ", "ּ", "ֽ", "ֿ",
    "ׁ", "ׂ", "ׄ", "ׅ", "ׇ", "״", "U+0600", "U+0601", "U+0602", "U+0603", "U+0604", "U+0605",
    "U+0610", "U+0611", "U+0612", "U+0613", "U+0614", "U+0615", "U+0616", "U+0617", "U+0618", "U+0619", "U+061A", "U+061C",
    "U+0640", "U+064B", "U+064C", "U+064D", "U+064E", "U+064F", "U+0650", "U+0651", "U+0652", "U+0653", "U+0654", "U+0655",
    "U+0656", "U+0657", "U+0658", "U+0659", "U+065A", "U+065B", "U+065C", "U+065D", "U+065E", "U+065F", "U+0670", "ۖ",
    "ۗ", "ۘ", "ۙ", "ۚ", "ۛ", "ۜ", "۝", "۟", "۠", "ۡ", "ۢ", "ۣ",
    "ۤ", "ۥ", "ۦ", "ۧ", "ۨ", "۪", "۫", "۬", "ۭ", "U+070F", "U+0711", "U+0730",
    "U+0731", "U+0732", "U+0733", "U+0734", "U+0735", "U+0736", "U+0737", "U+0738", "U+0739", "U+073A", "U+073B", "U+073C",
    "U+073D", "U+073E", "U+073F", "U+0740", "U+0741", "U+0742", "U+0743", "U+0744", "U+0745", "U+0746", "U+0747", "U+0748",
    "U+0749", "U+074A", "ަ", "ާ", "ި", "ީ", "ު", "ޫ", "ެ", "ޭ", "ޮ", "ޯ",
    "ް", "߫", "߬", "߭", "߮", "߯", "߰", "߱", "߲", "߳", "ߴ", "ߵ",
    "ߺ", "߽", "U+0816", "U+0817", "U+0818", "U+0819", "U+081A", "U+081B", "U+081C", "U+081D", "U+081E", "U+081F",
    "U+0820", "U+0821", "U+0822", "U+0823", "U+0824", "U+0825", "U+0826", "U+0827", "U+0828", "U+0829", "U+082A", "U+082B",
    "U+082C", "U+082D", "U+0859", "U+085A", "U+085B", "࢈", "࢐", "࢑", "࢘", "࢙", "࢚", "࢛",
    "࢜", "࢝", "࢞", "࢟", "ࣉ", "࣊", "࣋", "࣌", "࣍", "࣎", "࣏", "࣐",
    "࣑", "࣒", "࣓", "ࣔ", "ࣕ", "ࣖ", "ࣗ", "ࣘ", "ࣙ", "ࣚ", "ࣛ", "ࣜ",
    "ࣝ", "ࣞ", "ࣟ", "࣠", "࣡", "࣢", "ࣣ", "ࣤ", "ࣥ", "ࣦ", "ࣧ", "ࣨ",
    "ࣩ", "࣪", "࣫", "࣬", "࣭", "࣮", "࣯", "ࣰ", "ࣱ", "ࣲ", "ࣳ", "ࣴ",
    "ࣵ", "ࣶ", "ࣷ", "ࣸ", "ࣹ", "ࣺ", "ࣻ", "ࣼ", "ࣽ", "ࣾ", "ࣿ", "U+0900",
    "U+0901", "U+0902", "U+093A", "U+093C", "U+0941", "U+0942", "U+0943", "U+0944", "U+0945", "U+0946", "U+0947", "U+0948",
    "U+094D", "U+0951", "U+0952", "U+0953", "U+0954", "U+0955", "U+0956", "U+0957", "U+0962", "U+0963", "U+0971", "ঁ",
    "়", "ু", "ূ", "ৃ", "ৄ", "্", "ৢ", "ৣ", "৾", "U+0A01", "U+0A02", "U+0A3C",
    "U+0A41", "U+0A42", "U+0A47", "U+0A48", "U+0A4B", "U+0A4C", "U+0A4D", "U+0A51", "U+0A70", "U+0A71", "U+0A75", "ઁ",
    "ં", "઼", "ુ", "ૂ", "ૃ", "ૄ", "ૅ", "ે", "ૈ", "્", "ૢ", "ૣ",
    "ૺ", "ૻ", "ૼ", "૽", "૾", "૿", "U+0B01", "U+0B3C", "U+0B3F", "U+0B41", "U+0B42", "U+0B43",
    "U+0B44", "U+0B4D", "U+0B55", "U+0B56", "U+0B62", "U+0B63", "ஂ", "ீ", "்", "U+0C00", "U+0C04", "U+0C3C",
    "U+0C3E", "U+0C3F", "U+0C40", "U+0C46", "U+0C47", "U+0C48", "U+0C4A", "U+0C4B", "U+0C4C", "U+0C4D", "U+0C55", "U+0C56",
    "U+0C62", "U+0C63", "ಁ", "಼", "ಿ", "ೆ", "ೌ", "್", "ೢ", "ೣ", "U+0D00", "U+0D01",
    "U+0D3B", "U+0D3C", "U+0D41", "U+0D42", "U+0D43", "U+0D44", "U+0D4D", "U+0D62", "U+0D63", "ඁ", "්", "ි",
    "ී", "ු", "ූ", "U+0E31", "U+0E34", "U+0E35", "U+0E36", "U+0E37", "U+0E38", "U+0E39", "U+0E3A", "U+0E46",
    "U+0E47", "U+0E48", "U+0E49", "U+0E4A", "U+0E4B", "U+0E4C", "U+0E4D", "U+0E4E", "ັ", "ິ", "ີ", "ຶ",
    "ື", "ຸ", "ູ", "຺", "ົ", "ຼ", "ໆ", "່", "້", "໊", "໋", "໌",
    "ໍ", "U+0F18", "U+0F19", "U+0F35", "U+0F37", "U+0F39", "U+0F71", "U+0F72", "U+0F73", "U+0F74", "U+0F75", "U+0F76",
    "U+0F77", "U+0F78", "U+0F79", "U+0F7A", "U+0F7B", "U+0F7C", "U+0F7D", "U+0F7E", "ྀ", "ཱྀ", "ྂ", "ྃ",
    "྄", "྆", "྇", "ྍ", "ྎ", "ྏ", "ྐ", "ྑ", "ྒ", "ྒྷ", "ྔ", "ྕ",
    "ྖ", "ྗ", "ྙ", "ྚ", "ྛ", "ྜ", "ྜྷ", "ྞ", "ྟ", "ྠ", "ྡ", "ྡྷ",
    "ྣ", "ྤ", "ྥ", "ྦ", "ྦྷ", "ྨ", "ྩ", "ྪ", "ྫ", "ྫྷ", "ྭ", "ྮ",
    "ྯ", "ྰ", "ྱ", "ྲ", "ླ", "ྴ", "ྵ", "ྶ", "ྷ", "ྸ", "ྐྵ", "ྺ",
    "ྻ", "ྼ", "࿆", "U+102D", "U+102E", "U+102F", "U+1030", "U+1032", "U+1033", "U+1034", "U+1035", "U+1036",
    "U+1037", "U+1039", "U+103A", "U+103D", "U+103E", "U+1058", "U+1059", "U+105E", "U+105F", "U+1060", "U+1071", "U+1072",
    "U+1073", "U+1074", "ႂ", "ႅ", "ႆ", "ႍ", "ႝ", "ჼ", "U+135D", "U+135E", "U+135F", "U+1712",
    "U+1713", "U+1714", "U+1732", "U+1733", "U+1752", "U+1753", "U+1772", "U+1773", "឴", "឵", "ិ", "ី",
    "ឹ", "ឺ", "ុ", "ូ", "ួ", "ំ", "៉", "៊", "់", "៌", "៍", "៎",
    "៏", "័", "៑", "្", "៓", "ៗ", "៝", "U+180B", "U+180C", "U+180D", "U+180E", "U+180F",
    "U+1843", "ᢅ", "ᢆ", "ᢩ", "U+1920", "U+1921", "U+1922", "U+1927", "U+1928", "U+1932", "U+1939", "U+193A",
    "U+193B", "U+1A17", "U+1A18", "U+1A1B", "U+1A56", "U+1A58", "U+1A59", "U+1A5A", "U+1A5B", "U+1A5C", "U+1A5D", "U+1A5E",
    "U+1A60", "U+1A62", "U+1A65", "U+1A66", "U+1A67", "U+1A68", "U+1A69", "U+1A6A", "U+1A6B", "U+1A6C", "U+1A73", "U+1A74",
    "U+1A75", "U+1A76", "U+1A77", "U+1A78", "U+1A79", "U+1A7A", "U+1A7B", "U+1A7C", "U+1A7F", "ᪧ", "᪰", "᪱",
    "᪲", "᪳", "᪴", "᪵", "᪶", "᪷", "᪸", "᪹", "᪺", "᪻", "᪼", "᪽",
    "᪾", "ᪿ", "ᫀ", "᫁", "᫂", "᫃", "᫄", "᫅", "᫆", "᫇", "᫈", "᫉",
    "᫊", "᫋", "ᫌ", "ᫍ", "ᫎ", "U+1B00", "U+1B01", "U+1B02", "U+1B03", "U+1B34", "U+1B36", "U+1B37",
    "U+1B38", "U+1B39", "U+1B3A", "U+1B3C", "U+1B42", "U+1B6B", "U+1B6C", "U+1B6D", "U+1B6E", "U+1B6F", "U+1B70", "U+1B71",
    "U+1B72", "U+1B73", "ᮀ", "ᮁ", "ᮢ", "ᮣ", "ᮤ", "ᮥ", "ᮨ", "ᮩ", "᮫", "ᮬ",
    "ᮭ", "᯦", "ᯨ", "ᯩ", "ᯭ", "ᯯ", "ᯰ", "ᯱ", "U+1C2C", "U+1C2D", "U+1C2E", "U+1C2F",
    "U+1C30", "U+1C31", "U+1C32", "U+1C33", "U+1C36", "U+1C37", "U+1C78", "U+1C79", "U+1C7A", "U+1C7B", "U+1C7C", "U+1C7D",
    "᳐", "᳑", "᳒", "᳔", "᳕", "᳖", "᳗", "᳘", "᳙", "᳚", "᳛", "᳜",
    "᳝", "᳞", "᳟", "᳠", "᳢", "᳣", "᳤", "᳥", "᳦", "᳧", "᳨", "᳭",
    "᳴", "᳸", "᳹", "U+1D2C", "U+1D2D", "U+1D2E", "U+1D2F", "U+1D30", "U+1D31", "U+1D32", "U+1D33", "U+1D34",
    "U+1D35", "U+1D36", "U+1D37", "U+1D38", "U+1D39", "U+1D3A", "U+1D3B", "U+1D3C", "U+1D3D", "U+1D3E", "U+1D3F", "U+1D40",
    "U+1D41", "U+1D42", "U+1D43", "U+1D44", "U+1D45", "U+1D46", "U+1D47", "U+1D48", "U+1D49", "U+1D4A", "U+1D4B", "U+1D4C",
    "U+1D4D", "U+1D4E", "U+1D4F", "U+1D50", "U+1D51", "U+1D52", "U+1D53", "U+1D54", "U+1D55", "U+1D56", "U+1D57", "U+1D58",
    "U+1D59", "U+1D5A", "U+1D5B", "U+1D5C", "U+1D5D", "U+1D5E", "U+1D5F", "U+1D60", "U+1D61", "U+1D62", "U+1D63", "U+1D64",
    "U+1D65", "U+1D66", "U+1D67", "U+1D68", "U+1D69", "U+1D6A", "U+1D78", "ᶛ", "ᶜ", "ᶝ", "ᶞ", "ᶟ",
    "ᶠ", "ᶡ", "ᶢ", "ᶣ", "ᶤ", "ᶥ", "ᶦ", "ᶧ", "ᶨ", "ᶩ", "ᶪ", "ᶫ",
    "ᶬ", "ᶭ", "ᶮ", "ᶯ", "ᶰ", "ᶱ", "ᶲ", "ᶳ", "ᶴ", "ᶵ", "ᶶ", "ᶷ",
    "ᶸ", "ᶹ", "ᶺ", "ᶻ", "ᶼ", "ᶽ", "ᶾ", "ᶿ", "᷀", "᷁", "᷂", "᷃",
    "᷄", "᷅", "᷆", "᷇", "᷈", "᷉", "᷊", "᷋", "᷌", "᷍", "᷎", "᷏",
    "᷐", "᷑", "᷒", "ᷓ", "ᷔ", "ᷕ", "ᷖ", "ᷗ", "ᷘ", "ᷙ", "ᷚ", "ᷛ",
    "ᷜ", "ᷝ", "ᷞ", "ᷟ", "ᷠ", "ᷡ", "ᷢ", "ᷣ", "ᷤ", "ᷥ", "ᷦ", "ᷧ",
    "ᷨ", "ᷩ", "ᷪ", "ᷫ", "ᷬ", "ᷭ", "ᷮ", "ᷯ", "ᷰ", "ᷱ", "ᷲ", "ᷳ",
    "ᷴ", "᷵", "᷶", "᷷", "᷸", "᷹", "᷺", "᷻", "᷼", "᷽", "᷾", "᷿",
    "᾽", "᾿", "῀", "῁", "῍", "῎", "῏", "῝", "῞", "῟", "῭", "΅",
    "`", "´", "῾", "U+200B", "U+200C", "U+200D", "U+200E", "U+200F", "U+2018", "U+2019", "U+2024", "U+2027",
    "U+202A", "U+202B", "U+202C", "U+202D", "U+202E", "U+2060", "U+2061", "U+2062", "U+2063", "U+2064", "U+2066", "U+2067",
    "U+2068", "U+2069", "U+206A", "U+206B", "U+206C", "U+206D", "U+206E", "U+206F", "U+2071", "U+207F", "ₐ", "ₑ",
    "ₒ", "ₓ", "ₔ", "ₕ", "ₖ", "ₗ", "ₘ", "ₙ", "ₚ", "ₛ", "ₜ", "⃐",
    "⃑", "⃒", "⃓", "⃔", "⃕", "⃖", "⃗", "⃘", "⃙", "⃚", "⃛", "⃜",
    "⃝", "⃞", "⃟", "⃠", "⃡", "⃢", "⃣", "⃤", "⃥", "⃦", "⃧", "⃨",
    "⃩", "⃪", "⃫", "⃬", "⃭", "⃮", "⃯", "⃰", "U+2C7C", "U+2C7D", "⳯", "⳰",
    "⳱", "U+2D6F", "U+2D7F", "ⷠ", "ⷡ", "ⷢ", "ⷣ", "ⷤ", "ⷥ", "ⷦ", "ⷧ", "ⷨ",
    "ⷩ", "ⷪ", "ⷫ", "ⷬ", "ⷭ", "ⷮ", "ⷯ", "ⷰ", "ⷱ", "ⷲ", "ⷳ", "ⷴ",
    "ⷵ", "ⷶ", "ⷷ", "ⷸ", "ⷹ", "ⷺ", "ⷻ", "ⷼ", "ⷽ", "ⷾ", "ⷿ", "U+2E2F",
    "U+3005", "U+302A", "U+302B", "U+302C", "U+302D", "U+3031", "U+3032", "U+3033", "U+3034", "U+3035", "U+303B", "゙",
    "゚", "゛", "゜", "ゝ", "ゞ", "ー", "ヽ", "ヾ", "U+A015", "ꓸ", "ꓹ", "ꓺ",
    "ꓻ", "ꓼ", "ꓽ", "U+A60C", "U+A66F", "U+A670", "U+A671", "U+A672", "U+A674", "U+A675", "U+A676", "U+A677",
    "U+A678", "U+A679", "U+A67A", "U+A67B", "U+A67C", "U+A67D", "U+A67F", "ꚜ", "ꚝ", "ꚞ", "ꚟ", "꛰",
    "꛱", "U+A700", "U+A701", "U+A702", "U+A703", "U+A704", "U+A705", "U+A706", "U+A707", "U+A708", "U+A709", "U+A70A",
    "U+A70B", "U+A70C", "U+A70D", "U+A70E", "U+A70F", "U+A710", "U+A711", "U+A712", "U+A713", "U+A714", "U+A715", "U+A716",
    "U+A717", "U+A718", "U+A719", "U+A71A", "U+A71B", "U+A71C", "U+A71D", "U+A71E", "U+A71F", "U+A720", "U+A721", "U+A770",
    "ꞈ", "꞉", "꞊", "ꟲ", "ꟳ", "ꟴ", "ꟸ", "ꟹ", "U+A802", "U+A806", "U+A80B", "U+A825",
    "U+A826", "U+A82C", "꣄", "ꣅ", "꣠", "꣡", "꣢", "꣣", "꣤", "꣥", "꣦", "꣧",
    "꣨", "꣩", "꣪", "꣫", "꣬", "꣭", "꣮", "꣯", "꣰", "꣱", "ꣿ", "U+A926",
    "U+A927", "U+A928", "U+A929", "U+A92A", "U+A92B", "U+A92C", "U+A92D", "U+A947", "U+A948", "U+A949", "U+A94A", "U+A94B",
    "U+A94C", "U+A94D", "U+A94E", "U+A94F", "U+A950", "U+A951", "ꦀ", "ꦁ", "ꦂ", "꦳", "ꦶ", "ꦷ",
    "ꦸ", "ꦹ", "ꦼ", "ꦽ", "ꧏ", "ꧥ", "ꧦ", "U+AA29", "U+AA2A", "U+AA2B", "U+AA2C", "U+AA2D",
    "U+AA2E", "U+AA31", "U+AA32", "U+AA35", "U+AA36", "U+AA43", "U+AA4C", "U+AA70", "U+AA7C", "ꪰ", "ꪲ", "ꪳ",
    "ꪴ", "ꪷ", "ꪸ", "ꪾ", "꪿", "꫁", "ꫝ", "ꫬ", "ꫭ", "ꫳ", "ꫴ", "꫶",
    "U+AB5B", "U+AB5C", "U+AB5D", "U+AB5E", "U+AB5F", "U+AB69", "U+AB6A", "U+AB6B", "ꯥ", "ꯨ", "꯭", "U+FB1E",
    "﮲", "﮳", "﮴", "﮵", "﮶", "﮷", "﮸", "﮹", "﮺", "﮻", "﮼", "﮽",
    "﮾", "﮿", "﯀", "﯁", "﯂", "U+FE00", "U+FE01", "U+FE02", "U+FE03", "U+FE04", "U+FE05", "U+FE06",
    "U+FE07", "U+FE08", "U+FE09", "U+FE0A", "U+FE0B", "U+FE0C", "U+FE0D", "U+FE0E", "U+FE0F", "U+FE13", "U+FE20", "U+FE21",
    "U+FE22", "U+FE23", "U+FE24", "U+FE25", "U+FE26", "U+FE27", "U+FE28", "U+FE29", "U+FE2A", "U+FE2B", "U+FE2C", "U+FE2D",
    "U+FE2E", "U+FE2F", "U+FE52", "U+FE55", "﻿", "U+FF07", "U+FF0E", "U+FF1A", "U+FF3E", "U+FF40", "U+FF70", "ﾞ",
    "ﾟ", "￣", "￹", "￺", "￻", "U+101FD", "U+102E0", "U+10376", "U+10377", "U+10378", "U+10379", "U+1037A",
    "U+10780", "U+10781", "U+10782", "U+10783", "U+10784", "U+10785", "U+10787", "U+10788", "U+10789", "U+1078A", "U+1078B", "U+1078C",
    "U+1078D", "U+1078E", "U+1078F", "U+10790", "U+10791", "U+10792", "U+10793", "U+10794", "U+10795", "U+10796", "U+10797", "U+10798",
    "U+10799", "U+1079A", "U+1079B", "U+1079C", "U+1079D", "U+1079E", "U+1079F", "U+107A0", "U+107A1", "U+107A2", "U+107A3", "U+107A4",
    "U+107A5", "U+107A6", "U+107A7", "U+107A8", "U+107A9", "U+107AA", "U+107AB", "U+107AC", "U+107AD", "U+107AE", "U+107AF", "U+107B0",
    "U+107B2", "U+107B3", "U+107B4", "U+107B5", "U+107B6", "U+107B7", "U+107B8", "U+107B9", "U+107BA", "U+10A01", "U+10A02", "U+10A03",
    "U+10A05", "U+10A06", "U+10A0C", "U+10A0D", "U+10A0E", "U+10A0F", "U+10A38", "U+10A39", "U+10A3A", "U+10A3F", "U+10AE5", "U+10AE6",
    "U+10D24", "U+10D25", "U+10D26", "U+10D27", "U+10EAB", "U+10EAC", "U+10F46", "U+10F47", "U+10F48", "U+10F49", "U+10F4A", "U+10F4B",
    "U+10F4C", "U+10F4D", "U+10F4E", "U+10F4F", "U+10F50", "U+10F82", "U+10F83", "U+10F84", "U+10F85", "U+11001", "U+11038", "U+11039",
    "U+1103A", "U+1103B", "U+1103C", "U+1103D", "U+1103E", "U+1103F", "U+11040", "U+11041", "U+11042", "U+11043", "U+11044", "U+11045",
    "U+11046", "U+11070", "U+11073", "U+11074", "U+1107F", "U+11080", "U+11081", "U+110B3", "U+110B4", "U+110B5", "U+110B6", "U+110B9",
    "U+110BA", "U+110BD", "U+110C2", "U+110CD", "U+11100", "U+11101", "U+11102", "U+11127", "U+11128", "U+11129", "U+1112A", "U+1112B",
    "U+1112D", "U+1112E", "U+1112F", "U+11130", "U+11131", "U+11132", "U+11133", "U+11134", "U+11173", "U+11180", "U+11181", "U+111B6",
    "U+111B7", "U+111B8", "U+111B9", "U+111BA", "U+111BB", "U+111BC", "U+111BD", "U+111BE", "U+111C9", "U+111CA", "U+111CB", "U+111CC",
    "U+111CF", "U+1122F", "U+11230", "U+11231", "U+11234", "U+11236", "U+11237", "U+1123E", "U+112DF", "U+112E3", "U+112E4", "U+112E5",
    "U+112E6", "U+112E7", "U+112E8", "U+112E9", "U+112EA", "U+11300", "U+11301", "U+1133B", "U+1133C", "U+11340", "U+11366", "U+11367",
    "U+11368", "U+11369", "U+1136A", "U+1136B", "U+1136C", "U+11370", "U+11371", "U+11372", "U+11373", "U+11374", "U+11438", "U+11439",
    "U+1143A", "U+1143B", "U+1143C", "U+1143D", "U+1143E", "U+1143F", "U+11442", "U+11443", "U+11444", "U+11446", "U+1145E", "U+114B3",
    "U+114B4", "U+114B5", "U+114B6", "U+114B7", "U+114B8", "U+114BA", "U+114BF", "U+114C0", "U+114C2", "U+114C3", "U+115B2", "U+115B3",
    "U+115B4", "U+115B5", "U+115BC", "U+115BD", "U+115BF", "U+115C0", "U+115DC", "U+115DD", "U+11633", "U+11634", "U+11635", "U+11636",
    "U+11637", "U+11638", "U+11639", "U+1163A", "U+1163D", "U+1163F", "U+11640", "U+116AB", "U+116AD", "U+116B0", "U+116B1", "U+116B2",
    "U+116B3", "U+116B4", "U+116B5", "U+116B7", "U+1171D", "U+1171E", "U+1171F", "U+11722", "U+11723", "U+11724", "U+11725", "U+11727",
    "U+11728", "U+11729", "U+1172A", "U+1172B", "U+1182F", "U+11830", "U+11831", "U+11832", "U+11833", "U+11834", "U+11835", "U+11836",
    "U+11837", "U+11839", "U+1183A", "U+1193B", "U+1193C", "U+1193E", "U+11943", "U+119D4", "U+119D5", "U+119D6", "U+119D7", "U+119DA",
    "U+119DB", "U+119E0", "U+11A01", "U+11A02", "U+11A03", "U+11A04", "U+11A05", "U+11A06", "U+11A07", "U+11A08", "U+11A09", "U+11A0A",
    "U+11A33", "U+11A34", "U+11A35", "U+11A36", "U+11A37", "U+11A38", "U+11A3B", "U+11A3C", "U+11A3D", "U+11A3E", "U+11A47", "U+11A51",
    "U+11A52", "U+11A53", "U+11A54", "U+11A55", "U+11A56", "U+11A59", "U+11A5A", "U+11A5B", "U+11A8A", "U+11A8B", "U+11A8C", "U+11A8D",
    "U+11A8E", "U+11A8F", "U+11A90", "U+11A91", "U+11A92", "U+11A93", "U+11A94", "U+11A95", "U+11A96", "U+11A98", "U+11A99", "U+11C30",
    "U+11C31", "U+11C32", "U+11C33", "U+11C34", "U+11C35", "U+11C36", "U+11C38", "U+11C39", "U+11C3A", "U+11C3B", "U+11C3C", "U+11C3D",
    "U+11C3F", "U+11C92", "U+11C93", "U+11C94", "U+11C95", "U+11C96", "U+11C97", "U+11C98", "U+11C99", "U+11C9A", "U+11C9B", "U+11C9C",
    "U+11C9D", "U+11C9E", "U+11C9F", "U+11CA0", "U+11CA1", "U+11CA2", "U+11CA3", "U+11CA4", "U+11CA5", "U+11CA6", "U+11CA7", "U+11CAA",
    "U+11CAB", "U+11CAC", "U+11CAD", "U+11CAE", "U+11CAF", "U+11CB0", "U+11CB2", "U+11CB3", "U+11CB5", "U+11CB6", "U+11D31", "U+11D32",
    "U+11D33", "U+11D34", "U+11D35", "U+11D36", "U+11D3A", "U+11D3C", "U+11D3D", "U+11D3F", "U+11D40", "U+11D41", "U+11D42", "U+11D43",
    "U+11D44", "U+11D45", "U+11D47", "U+11D90", "U+11D91", "U+11D95", "U+11D97", "U+11EF3", "U+11EF4", "U+13430", "U+13431", "U+13432",
    "U+13433", "U+13434", "U+13435", "U+13436", "U+13437", "U+13438", "U+16AF0", "U+16AF1", "U+16AF2", "U+16AF3", "U+16AF4", "U+16B30",
    "U+16B31", "U+16B32", "U+16B33", "U+16B34", "U+16B35", "U+16B36", "U+16B40", "U+16B41", "U+16B42", "U+16B43", "U+16F4F", "U+16F8F",
    "U+16F90", "U+16F91", "U+16F92", "U+16F93", "U+16F94", "U+16F95", "U+16F96", "U+16F97", "U+16F98", "U+16F99", "U+16F9A", "U+16F9B",
    "U+16F9C", "U+16F9D", "U+16F9E", "U+16F9F", "U+16FE0", "U+16FE1", "U+16FE3", "U+16FE4", "U+1AFF0", "U+1AFF1", "U+1AFF2", "U+1AFF3",
    "U+1AFF5", "U+1AFF6", "U+1AFF7", "U+1AFF8", "U+1AFF9", "U+1AFFA", "U+1AFFB", "U+1AFFD", "U+1AFFE", "U+1BC9D", "U+1BC9E", "U+1BCA0",
    "U+1BCA1", "U+1BCA2", "U+1BCA3", "U+1CF00", "U+1CF01", "U+1CF02", "U+1CF03", "U+1CF04", "U+1CF05", "U+1CF06", "U+1CF07", "U+1CF08",
    "U+1CF09", "U+1CF0A", "U+1CF0B", "U+1CF0C", "U+1CF0D", "U+1CF0E", "U+1CF0F", "U+1CF10", "U+1CF11", "U+1CF12", "U+1CF13", "U+1CF14",
    "U+1CF15", "U+1CF16", "U+1CF17", "U+1CF18", "U+1CF19", "U+1CF1A", "U+1CF1B", "U+1CF1C", "U+1CF1D", "U+1CF1E", "U+1CF1F", "U+1CF20",
    "U+1CF21", "U+1CF22", "U+1CF23", "U+1CF24", "U+1CF25", "U+1CF26", "U+1CF27", "U+1CF28", "U+1CF29", "U+1CF2A", "U+1CF2B", "U+1CF2C",
    "U+1CF2D", "U+1CF30", "U+1CF31", "U+1CF32", "U+1CF33", "U+1CF34", "U+1CF35", "U+1CF36", "U+1CF37", "U+1CF38", "U+1CF39", "U+1CF3A",
    "U+1CF3B", "U+1CF3C", "U+1CF3D", "U+1CF3E", "U+1CF3F", "U+1CF40", "U+1CF41", "U+1CF42", "U+1CF43", "U+1CF44", "U+1CF45", "U+1CF46",
    "U+1D167", "U+1D168", "U+1D169", "U+1D173", "U+1D174", "U+1D175", "U+1D176", "U+1D177", "U+1D178", "U+1D179", "U+1D17A", "U+1D17B",
    "U+1D17C", "U+1D17D", "U+1D17E", "U+1D17F", "U+1D180", "U+1D181", "U+1D182", "U+1D185", "U+1D186", "U+1D187", "U+1D188", "U+1D189",
    "U+1D18A", "U+1D18B", "U+1D1AA", "U+1D1AB", "U+1D1AC", "U+1D1AD", "U+1D242", "U+1D243", "U+1D244", "U+1DA00", "U+1DA01", "U+1DA02",
    "U+1DA03", "U+1DA04", "U+1DA05", "U+1DA06", "U+1DA07", "U+1DA08", "U+1DA09", "U+1DA0A", "U+1DA0B", "U+1DA0C", "U+1DA0D", "U+1DA0E",
    "U+1DA0F", "U+1DA10", "U+1DA11", "U+1DA12", "U+1DA13", "U+1DA14", "U+1DA15", "U+1DA16", "U+1DA17", "U+1DA18", "U+1DA19", "U+1DA1A",
    "U+1DA1B", "U+1DA1C", "U+1DA1D", "U+1DA1E", "U+1DA1F", "U+1DA20", "U+1DA21", "U+1DA22", "U+1DA23", "U+1DA24", "U+1DA25", "U+1DA26",
    "U+1DA27", "U+1DA28", "U+1DA29", "U+1DA2A", "U+1DA2B", "U+1DA2C", "U+1DA2D", "U+1DA2E", "U+1DA2F", "U+1DA30", "U+1DA31", "U+1DA32",
    "U+1DA33", "U+1DA34", "U+1DA35", "U+1DA36", "U+1DA3B", "U+1DA3C", "U+1DA3D", "U+1DA3E", "U+1DA3F", "U+1DA40", "U+1DA41", "U+1DA42",
    "U+1DA43", "U+1DA44", "U+1DA45", "U+1DA46", "U+1DA47", "U+1DA48", "U+1DA49", "U+1DA4A", "U+1DA4B", "U+1DA4C", "U+1DA4D", "U+1DA4E",
    "U+1DA4F", "U+1DA50", "U+1DA51", "U+1DA52", "U+1DA53", "U+1DA54", "U+1DA55", "U+1DA56", "U+1DA57", "U+1DA58", "U+1DA59", "U+1DA5A",
    "U+1DA5B", "U+1DA5C", "U+1DA5D", "U+1DA5E", "U+1DA5F", "U+1DA60", "U+1DA61", "U+1DA62", "U+1DA63", "U+1DA64", "U+1DA65", "U+1DA66",
    "U+1DA67", "U+1DA68", "U+1DA69", "U+1DA6A", "U+1DA6B", "U+1DA6C", "U+1DA75", "U+1DA84", "U+1DA9B", "U+1DA9C", "U+1DA9D", "U+1DA9E",
    "U+1DA9F", "U+1DAA1", "U+1DAA2", "U+1DAA3", "U+1DAA4", "U+1DAA5", "U+1DAA6", "U+1DAA7", "U+1DAA8", "U+1DAA9", "U+1DAAA", "U+1DAAB",
    "U+1DAAC", "U+1DAAD", "U+1DAAE", "U+1DAAF", "U+1E000", "U+1E001", "U+1E002", "U+1E003", "U+1E004", "U+1E005", "U+1E006", "U+1E008",
    "U+1E009", "U+1E00A", "U+1E00B", "U+1E00C", "U+1E00D", "U+1E00E", "U+1E00F", "U+1E010", "U+1E011", "U+1E012", "U+1E013", "U+1E014",
    "U+1E015", "U+1E016", "U+1E017", "U+1E018", "U+1E01B", "U+1E01C", "U+1E01D", "U+1E01E", "U+1E01F", "U+1E020", "U+1E021", "U+1E023",
    "U+1E024", "U+1E026", "U+1E027", "U+1E028", "U+1E029", "U+1E02A", "U+1E130", "U+1E131", "U+1E132", "U+1E133", "U+1E134", "U+1E135",
    "U+1E136", "U+1E137", "U+1E138", "U+1E139", "U+1E13A", "U+1E13B", "U+1E13C", "U+1E13D", "U+1E2AE", "U+1E2EC", "U+1E2ED", "U+1E2EE",
    "U+1E2EF", "U+1E8D0", "U+1E8D1", "U+1E8D2", "U+1E8D3", "U+1E8D4", "U+1E8D5", "U+1E8D6", "U+1E944", "U+1E945", "U+1E946", "U+1E947",
    "U+1E948", "U+1E949", "U+1E94A", "U+1E94B", "U+1F3FB", "U+1F3FC", "U+1F3FD", "U+1F3FE", "U+1F3FF", "U+E0001", "U+E0020", "U+E0021",
    "U+E0022", "U+E0023", "U+E0024", "U+E0025", "U+E0026", "U+E0027", "U+E0028", "U+E0029", "U+E002A", "U+E002B", "U+E002C", "U+E002D",
    "U+E002E", "U+E002F", "U+E0030", "U+E0031", "U+E0032", "U+E0033", "U+E0034", "U+E0035", "U+E0036", "U+E0037", "U+E0038", "U+E0039",
    "U+E003A", "U+E003B", "U+E003C", "U+E003D", "U+E003E", "U+E003F", "U+E0040", "U+E0041", "U+E0042", "U+E0043", "U+E0044", "U+E0045",
    "U+E0046", "U+E0047", "U+E0048", "U+E0049", "U+E004A", "U+E004B", "U+E004C", "U+E004D", "U+E004E", "U+E004F", "U+E0050", "U+E0051",
    "U+E0052", "U+E0053", "U+E0054", "U+E0055", "U+E0056", "U+E0057", "U+E0058", "U+E0059", "U+E005A", "U+E005B", "U+E005C", "U+E005D",
    "U+E005E", "U+E005F", "U+E0060", "U+E0061", "U+E0062", "U+E0063", "U+E0064", "U+E0065", "U+E0066", "U+E0067", "U+E0068", "U+E0069",
    "U+E006A", "U+E006B", "U+E006C", "U+E006D", "U+E006E", "U+E006F", "U+E0070", "U+E0071", "U+E0072", "U+E0073", "U+E0074", "U+E0075",
    "U+E0076", "U+E0077", "U+E0078", "U+E0079", "U+E007A", "U+E007B", "U+E007C", "U+E007D", "U+E007E", "U+E007F", "U+E0100", "U+E0101",
    "U+E0102", "U+E0103", "U+E0104", "U+E0105", "U+E0106", "U+E0107", "U+E0108", "U+E0109", "U+E010A", "U+E010B", "U+E010C", "U+E010D",
    "U+E010E", "U+E010F", "U+E0110", "U+E0111", "U+E0112", "U+E0113", "U+E0114", "U+E0115", "U+E0116", "U+E0117", "U+E0118", "U+E0119",
    "U+E011A", "U+E011B", "U+E011C", "U+E011D", "U+E011E", "U+E011F", "U+E0120", "U+E0121", "U+E0122", "U+E0123", "U+E0124", "U+E0125",
    "U+E0126", "U+E0127", "U+E0128", "U+E0129", "U+E012A", "U+E012B", "U+E012C", "U+E012D", "U+E012E", "U+E012F", "U+E0130", "U+E0131",
    "U+E0132", "U+E0133", "U+E0134", "U+E0135", "U+E0136", "U+E0137", "U+E0138", "U+E0139", "U+E013A", "U+E013B", "U+E013C", "U+E013D",
    "U+E013E", "U+E013F", "U+E0140", "U+E0141", "U+E0142", "U+E0143", "U+E0144", "U+E0145", "U+E0146", "U+E0147", "U+E0148", "U+E0149",
    "U+E014A", "U+E014B", "U+E014C", "U+E014D", "U+E014E", "U+E014F", "U+E0150", "U+E0151", "U+E0152", "U+E0153", "U+E0154", "U+E0155",
    "U+E0156", "U+E0157", "U+E0158", "U+E0159", "U+E015A", "U+E015B", "U+E015C", "U+E015D", "U+E015E", "U+E015F", "U+E0160", "U+E0161",
    "U+E0162", "U+E0163", "U+E0164", "U+E0165", "U+E0166", "U+E0167", "U+E0168", "U+E0169", "U+E016A", "U+E016B", "U+E016C", "U+E016D",
    "U+E016E", "U+E016F", "U+E0170", "U+E0171", "U+E0172", "U+E0173", "U+E0174", "U+E0175", "U+E0176", "U+E0177", "U+E0178", "U+E0179",
    "U+E017A", "U+E017B", "U+E017C", "U+E017D", "U+E017E", "U+E017F", "U+E0180", "U+E0181", "U+E0182", "U+E0183", "U+E0184", "U+E0185",
    "U+E0186", "U+E0187", "U+E0188", "U+E0189", "U+E018A", "U+E018B", "U+E018C", "U+E018D", "U+E018E", "U+E018F", "U+E0190", "U+E0191",
    "U+E0192", "U+E0193", "U+E0194", "U+E0195", "U+E0196", "U+E0197", "U+E0198", "U+E0199", "U+E019A", "U+E019B", "U+E019C", "U+E019D",
    "U+E019E", "U+E019F", "U+E01A0", "U+E01A1", "U+E01A2", "U+E01A3", "U+E01A4", "U+E01A5", "U+E01A6", "U+E01A7", "U+E01A8", "U+E01A9",
    "U+E01AA", "U+E01AB", "U+E01AC", "U+E01AD", "U+E01AE", "U+E01AF", "U+E01B0", "U+E01B1", "U+E01B2", "U+E01B3", "U+E01B4", "U+E01B5",
    "U+E01B6", "U+E01B7", "U+E01B8", "U+E01B9", "U+E01BA", "U+E01BB", "U+E01BC", "U+E01BD", "U+E01BE", "U+E01BF", "U+E01C0", "U+E01C1",
    "U+E01C2", "U+E01C3", "U+E01C4", "U+E01C5", "U+E01C6", "U+E01C7", "U+E01C8", "U+E01C9", "U+E01CA", "U+E01CB", "U+E01CC", "U+E01CD",
    "U+E01CE", "U+E01CF", "U+E01D0", "U+E01D1", "U+E01D2", "U+E01D3", "U+E01D4", "U+E01D5", "U+E01D6", "U+E01D7", "U+E01D8", "U+E01D9",
    "U+E01DA", "U+E01DB", "U+E01DC", "U+E01DD", "U+E01DE", "U+E01DF", "U+E01E0", "U+E01E1", "U+E01E2", "U+E01E3", "U+E01E4", "U+E01E5",
    "U+E01E6", "U+E01E7", "U+E01E8", "U+E01E9", "U+E01EA", "U+E01EB", "U+E01EC", "U+E01ED", "U+E01EE", "U+E01EF"
  }

\* The characters str.lower() takes for letters of a word around a capital
\* sigma, the case-ignorable ones left out.
Cased ==
  {
    "A", "B", "C", "D", "E", "F", "G", "H", "I", "J", "K", "L",
    "M", "N", "O", "P", "Q", "R", "S", "T", "U", "V", "W", "X",
    "Y", "Z", "a", "b", "c", "d", "e", "f", "g", "h", "i", "j",
    "k", "l", "m", "n", "o", "p", "q", "r", "s", "t", "u", "v",
    "w", "x", "y", "z", "ª", "µ", "º", "À", "Á", "Â", "Ã", "Ä",
    "Å", "Æ", "Ç", "È", "É", "Ê", "Ë", "Ì", "Í", "Î", "Ï", "Ð",
    "Ñ", "Ò", "Ó", "Ô", "Õ", "Ö", "Ø", "Ù", "Ú", "Û", "Ü", "Ý",
    "Þ", "ß", "à", "á", "â", "ã", "ä", "å", "æ", "ç", "è", "é",
    "ê", "ë", "ì", "í", "î", "ï", "ð", "ñ", "ò", "ó", "ô", "õ",
    "ö", "ø", "ù", "ú", "û", "ü", "ý", "þ", "ÿ", "U+0100", "U+0101", "U+0102",
    "U+0103", "U+0104", "U+0105", "U+0106", "U+0107", "U+0108", "U+0109", "U+010A", "U+010B", "U+010C", "U+010D", "U+010E",
    "U+010F", "U+0110", "U+0111", "U+0112", "U+0113", "U+0114", "U+0115", "U+0116", "U+0117", "U+0118", "U+0119", "U+011A",
    "U+011B", "U+011C", "U+011D", "U+011E", "U+011F", "U+0120", "U+0121", "U+0122", "U+0123", "U+0124", "U+0125", "U+0126",
    "U+0127", "U+0128", "U+0129", "U+012A", "U+012B", "U+012C", "U+012D", "U+012E", "U+012F", "U+0130", "U+0131", "U+0132",
    "U+0133", "U+0134", "U+0135", "U+0136", "U+0137", "U+0138", "U+0139", "U+013A", "U+013B", "U+013C", "U+013D", "U+013E",
    "U+013F", "U+0140", "U+0141", "U+0142", "U+0143", "U+0144", "U+0145", "U+0146", "U+0147", "U+0148", "U+0149", "U+014A",
    "U+014B", "U+014C", "U+014D", "U+014E", "U+014F", "U+0150", "U+0151", "U+0152", "U+0153", "U+0154", "U+0155", "U+0156",
    "U+0157", "U+0158", "U+0159", "U+015A", "U+015B", "U+015C", "U+015D", "U+015E", "U+015F", "U+0160", "U+0161", "U+0162",
    "U+0163", "U+0164", "U+0165", "U+0166", "U+0167", "U+0168", "U+0169", "U+016A", "U+016B", "U+016C", "U+016D", "U+016E",
    "U+016F", "U+0170", "U+0171", "U+0172", "U+0173", "U+0174", "U+0175", "U+0176", "U+0177", "U+0178", "U+0179", "U+017A",
    "U+017B", "U+017C", "U+017D", "U+017E", "U+017F", "ƀ", "Ɓ", "Ƃ", "ƃ", "Ƅ", "ƅ", "Ɔ",
    "Ƈ", "ƈ", "Ɖ", "Ɗ", "Ƌ", "ƌ", "ƍ", "Ǝ", "Ə", "Ɛ", "Ƒ", "ƒ",
    "Ɠ", "Ɣ", "ƕ", "Ɩ", "Ɨ", "Ƙ", "ƙ", "ƚ", "ƛ", "Ɯ", "Ɲ", "ƞ",
    "Ɵ", "Ơ", "ơ", "Ƣ", "ƣ", "Ƥ", "ƥ", "Ʀ", "Ƨ", "ƨ", "Ʃ", "ƪ",
    "ƫ", "Ƭ", "ƭ", "Ʈ", "Ư", "ư", "Ʊ", "Ʋ", "Ƴ", "ƴ", "Ƶ", "ƶ",
    "Ʒ", "Ƹ", "ƹ", "ƺ", "Ƽ", "ƽ", "ƾ", "ƿ", "Ǆ", "ǅ", "ǆ", "Ǉ",
    "ǈ", "ǉ", "Ǌ", "ǋ", "ǌ", "Ǎ", "ǎ", "Ǐ", "ǐ", "Ǒ", "ǒ", "Ǔ",
    "ǔ", "Ǖ", "ǖ", "Ǘ", "ǘ", "Ǚ", "ǚ", "Ǜ", "ǜ", "ǝ", "Ǟ", "ǟ",
    "Ǡ", "ǡ", "Ǣ", "ǣ", "Ǥ", "ǥ", "Ǧ", "ǧ", "Ǩ", "ǩ", "Ǫ", "ǫ",
    "Ǭ", "ǭ", "Ǯ", "ǯ", "ǰ", "Ǳ", "ǲ", "ǳ", "Ǵ", "ǵ", "Ƕ", "Ƿ",
    "Ǹ", "ǹ", "Ǻ", "ǻ", "Ǽ", "ǽ", "Ǿ", "ǿ", "U+0200", "U+0201", "U+0202", "U+0203",
    "U+0204", "U+0205", "U+0206", "U+0207", "U+0208", "U+0209", "U+020A", "U+020B", "U+020C", "U+020D", "U+020E", "U+020F",
    "U+0210", "U+0211", "U+0212", "U+0213", "U+0214", "U+0215", "U+0216", "U+0217", "U+0218", "U+0219", "U+021A", "U+021B",
    "U+021C", "U+021D", "U+021E", "U+021F", "U+0220", "U+0221", "U+0222", "U+0223", "U+0224", "U+0225", "U+0226", "U+0227",
    "U+0228", "U+0229", "U+022A", "U+022B", "U+022C", "U+022D", "U+022E", "U+022F", "U+0230", "U+0231", "U+0232", "U+0233",
    "U+0234", "U+0235", "U+0236", "U+0237", "U+0238", "U+0239", "U+023A", "U+023B", "U+023C", "U+023D", "U+023E", "U+023F",
    "U+0240", "U+0241", "U+0242", "U+0243", "U+0244", "U+0245", "U+0246", "U+0247", "U+0248", "U+0249", "U+024A", "U+024B",
    "U+024C", "U+024D", "U+024E", "U+024F", "U+0250", "U+0251", "U+0252", "U+0253", "U+0254", "U+0255", "U+0256", "U+0257",
    "U+0258", "U+0259", "U+025A", "U+025B", "U+025C", "U+025D", "U+025E", "U+025F", "U+0260", "U+0261", "U+0262", "U+0263",
    "U+0264", "U+0265", "U+0266", "U+0267", "U+0268", "U+0269", "U+026A", "U+026B", "U+026C", "U+026D", "U+026E", "U+026F",
    "U+0270", "U+0271", "U+0272", "U+0273", "U+0274", "U+0275", "U+0276", "U+0277", "U+0278", "U+0279", "U+027A", "U+027B",
    "U+027C", "U+027D", "U+027E", "U+027F", "ʀ", "ʁ", "ʂ", "ʃ", "ʄ", "ʅ", "ʆ", "ʇ",
    "ʈ", "ʉ", "ʊ", "ʋ", "ʌ", "ʍ", "ʎ", "ʏ", "ʐ", "ʑ", "ʒ", "ʓ",
    "ʕ", "ʖ", "ʗ", "ʘ", "ʙ", "ʚ", "ʛ", "ʜ", "ʝ", "ʞ", "ʟ", "ʠ",
    "ʡ", "ʢ", "ʣ", "ʤ", "ʥ", "ʦ", "ʧ", "ʨ", "ʩ", "ʪ", "ʫ", "ʬ",
    "ʭ", "ʮ", "ʯ", "U+0370", "U+0371", "U+0372", "U+0373", "U+0376", "U+0377", "U+037B", "U+037C", "U+037D",
    "U+037F", "Ά", "Έ", "Ή", "Ί", "Ό", "Ύ", "Ώ", "ΐ", "Α", "Β", "Γ",
    "Δ", "Ε", "Ζ", "Η", "Θ", "Ι", "Κ", "Λ", "Μ", "Ν", "Ξ", "Ο",
    "Π", "Ρ", "Σ", "Τ", "Υ", "Φ", "Χ", "Ψ", "Ω", "Ϊ", "Ϋ", "ά",
    "έ", "ή", "ί", "ΰ", "α", "β", "γ", "δ", "ε", "ζ", "η", "θ",
    "ι", "κ", "λ", "μ", "ν", "ξ", "ο", "π", "ρ", "ς", "σ", "τ",
    "υ", "φ", "χ", "ψ", "ω", "ϊ", "ϋ", "ό", "ύ", "ώ", "Ϗ", "ϐ",
    "ϑ", "ϒ", "ϓ", "ϔ", "ϕ", "ϖ", "ϗ", "Ϙ", "ϙ", "Ϛ", "ϛ", "Ϝ",
    "ϝ", "Ϟ", "ϟ", "Ϡ", "ϡ", "Ϣ", "ϣ", "Ϥ", "ϥ", "Ϧ", "ϧ", "Ϩ",
    "ϩ", "Ϫ", "ϫ", "Ϭ", "ϭ", "Ϯ", "ϯ", "ϰ", "ϱ", "ϲ", "ϳ", "ϴ",
    "ϵ", "Ϸ", "ϸ", "Ϲ", "Ϻ", "ϻ", "ϼ", "Ͻ", "Ͼ", "Ͽ", "U+0400", "U+0401",
    "U+0402", "U+0403", "U+0404", "U+0405", "U+0406", "U+0407", "U+0408", "U+0409", "U+040A", "U+040B", "U+040C", "U+040D",
    "U+040E", "U+040F", "U+0410", "U+0411", "U+0412", "U+0413", "U+0414", "U+0415", "U+0416", "U+0417", "U+0418", "U+0419",
    "U+041A", "U+041B", "U+041C", "U+041D", "U+041E", "U+041F", "U+0420", "U+0421", "U+0422", "U+0423", "U+0424", "U+0425",
    "U+0426", "U+0427", "U+0428", "U+0429", "U+042A", "U+042B", "U+042C", "U+042D", "U+042E", "U+042F", "U+0430", "U+0431",
    "U+0432", "U+0433", "U+0434", "U+0435", "U+0436", "U+0437", "U+0438", "U+0439", "U+043A", "U+043B", "U+043C", "U+043D",
    "U+043E", "U+043F", "U+0440", "U+0441", "U+0442", "U+0443", "U+0444", "U+0445", "U+0446", "U+0447", "U+0448", "U+0449",
    "U+044A", "U+044B", "U+044C", "U+044D", "U+044E", "U+044F", "U+0450", "U+0451", "U+0452", "U+0453", "U+0454", "U+0455",
    "U+0456", "U+0457", "U+0458", "U+0459", "U+045A", "U+045B", "U+045C", "U+045D", "U+045E", "U+045F", "U+0460", "U+0461",
    "U+0462", "U+0463", "U+0464", "U+0465", "U+0466", "U+0467", "U+0468", "U+0469", "U+046A", "U+046B", "U+046C", "U+046D",
    "U+046E", "U+046F", "U+0470", "U+0471", "U+0472", "U+0473", "U+0474", "U+0475", "U+0476", "U+0477", "U+0478", "U+0479",
    "U+047A", "U+047B", "U+047C", "U+047D", "U+047E", "U+047F", "Ҁ", "ҁ", "Ҋ", "ҋ", "Ҍ", "ҍ",
    "Ҏ", "ҏ", "Ґ", "ґ", "Ғ", "ғ", "Ҕ", "ҕ", "Җ", "җ", "Ҙ", "ҙ",
    "Қ", "қ", "Ҝ", "ҝ", "Ҟ", "ҟ", "Ҡ", "ҡ", "Ң", "ң", "Ҥ", "ҥ",
    "Ҧ", "ҧ", "Ҩ", "ҩ", "Ҫ", "ҫ", "Ҭ", "ҭ", "Ү", "ү", "Ұ", "ұ",
    "Ҳ", "ҳ", "Ҵ", "ҵ", "Ҷ", "ҷ", "Ҹ", "ҹ", "Һ", "һ", "Ҽ", "ҽ",
    "Ҿ", "ҿ", "Ӏ", "Ӂ", "ӂ", "Ӄ", "ӄ", "Ӆ", "ӆ", "Ӈ", "ӈ", "Ӊ",
    "ӊ", "Ӌ", "ӌ", "Ӎ", "ӎ", "ӏ", "Ӑ", "ӑ", "Ӓ", "ӓ", "Ӕ", "ӕ",
    "Ӗ", "ӗ", "Ә", "ә", "Ӛ", "ӛ", "Ӝ", "ӝ", "Ӟ", "ӟ", "Ӡ", "ӡ",
    "Ӣ", "ӣ", "Ӥ", "ӥ", "Ӧ", "ӧ", "Ө", "ө", "Ӫ", "ӫ", "Ӭ", "ӭ",
    "Ӯ", "ӯ", "Ӱ", "ӱ", "Ӳ", "ӳ", "Ӵ", "ӵ", "Ӷ", "ӷ", "Ӹ", "ӹ",
    "Ӻ", "ӻ", "Ӽ", "ӽ", "Ӿ", "ӿ", "U+0500", "U+0501", "U+0502", "U+0503", "U+0504", "U+0505",
    "U+0506", "U+0507", "U+0508", "U+0509", "U+050A", "U+050B", "U+050C", "U+050D", "U+050E", "U+050F", "U+0510", "U+0511",
    "U+0512", "U+0513", "U+0514", "U+0515", "U+0516", "U+0517", "U+0518", "U+0519", "U+051A", "U+051B", "U+051C", "U+051D",
    "U+051E", "U+051F", "U+0520", "U+0521", "U+0522", "U+0523", "U+0524", "U+0525", "U+0526", "U+0527", "U+0528", "U+0529",
    "U+052A", "U+052B", "U+052C", "U+052D", "U+052E", "U+052F", "U+0531", "U+0532", "U+0533", "U+0534", "U+0535", "U+0536",
    "U+0537", "U+0538", "U+0539", "U+053A", "U+053B", "U+053C", "U+053D", "U+053E", "U+053F", "U+0540", "U+0541", "U+0542",
    "U+0543", "U+0544", "U+0545", "U+0546", "U+0547", "U+0548", "U+0549", "U+054A", "U+054B", "U+054C", "U+054D", "U+054E",
    "U+054F", "U+0550", "U+0551", "U+0552", "U+0553", "U+0554", "U+0555", "U+0556", "U+0560", "U+0561", "U+0562", "U+0563",
    "U+0564", "U+0565", "U+0566", "U+0567", "U+0568", "U+0569", "U+056A", "U+056B", "U+056C", "U+056D", "U+056E", "U+056F",
    "U+0570", "U+0571", "U+0572", "U+0573", "U+0574", "U+0575", "U+0576", "U+0577", "U+0578", "U+0579", "U+057A", "U+057B",
    "U+057C", "U+057D", "U+057E", "U+057F", "ր", "ց", "ւ", "փ", "ք", "օ", "ֆ", "և",
    "ֈ", "Ⴀ", "Ⴁ", "Ⴂ", "Ⴃ", "Ⴄ", "Ⴅ", "Ⴆ", "Ⴇ", "Ⴈ", "Ⴉ", "Ⴊ",
    "Ⴋ", "Ⴌ", "Ⴍ", "Ⴎ", "Ⴏ", "Ⴐ", "Ⴑ", "Ⴒ", "Ⴓ", "Ⴔ", "Ⴕ", "Ⴖ",
    "Ⴗ", "Ⴘ", "Ⴙ", "Ⴚ", "Ⴛ", "Ⴜ", "Ⴝ", "Ⴞ", "Ⴟ", "Ⴠ", "Ⴡ", "Ⴢ",
    "Ⴣ", "Ⴤ", "Ⴥ", "Ⴧ", "Ⴭ", "ა", "ბ", "გ", "დ", "ე", "ვ", "ზ",
    "თ", "ი", "კ", "ლ", "მ", "ნ", "ო", "პ", "ჟ", "რ", "ს", "ტ",
    "უ", "ფ", "ქ", "ღ", "ყ", "შ", "ჩ", "ც", "ძ", "წ", "ჭ", "ხ",
    "ჯ", "ჰ", "ჱ", "ჲ", "ჳ", "ჴ", "ჵ", "ჶ", "ჷ", "ჸ", "ჹ", "ჺ",
    "ჽ", "ჾ", "ჿ", "Ꭰ", "Ꭱ", "Ꭲ", "Ꭳ", "Ꭴ", "Ꭵ", "Ꭶ", "Ꭷ", "Ꭸ",
    "Ꭹ", "Ꭺ", "Ꭻ", "Ꭼ", "Ꭽ", "Ꭾ", "Ꭿ", "Ꮀ", "Ꮁ", "Ꮂ", "Ꮃ", "Ꮄ",
    "Ꮅ", "Ꮆ", "Ꮇ", "Ꮈ", "Ꮉ", "Ꮊ", "Ꮋ", "Ꮌ", "Ꮍ", "Ꮎ", "Ꮏ", "Ꮐ",
    "Ꮑ", "Ꮒ", "Ꮓ", "Ꮔ", "Ꮕ", "Ꮖ", "Ꮗ", "Ꮘ", "Ꮙ", "Ꮚ", "Ꮛ", "Ꮜ",
    "Ꮝ", "Ꮞ", "Ꮟ", "Ꮠ", "Ꮡ", "Ꮢ", "Ꮣ", "Ꮤ", "Ꮥ", "Ꮦ", "Ꮧ", "Ꮨ",
    "Ꮩ", "Ꮪ", "Ꮫ", "Ꮬ", "Ꮭ", "Ꮮ", "Ꮯ", "Ꮰ", "Ꮱ", "Ꮲ", "Ꮳ", "Ꮴ",
    "Ꮵ", "Ꮶ", "Ꮷ", "Ꮸ", "Ꮹ", "Ꮺ", "Ꮻ", "Ꮼ", "Ꮽ", "Ꮾ", "Ꮿ", "Ᏸ",
    "Ᏹ", "Ᏺ", "Ᏻ", "Ᏼ", "Ᏽ", "ᏸ", "ᏹ", "ᏺ", "ᏻ", "ᏼ", "ᏽ", "ᲀ",
    "ᲁ", "ᲂ", "ᲃ", "ᲄ", "ᲅ", "ᲆ", "ᲇ", "ᲈ", "Ა", "Ბ", "Გ", "Დ",
    "Ე", "Ვ", "Ზ", "Თ", "Ი", "Კ", "Ლ", "Მ", "Ნ", "Ო", "Პ", "Ჟ",
    "Რ", "Ს", "Ტ", "Უ", "Ფ", "Ქ", "Ღ", "Ყ", "Შ", "Ჩ", "Ც", "Ძ",
    "Წ", "Ჭ", "Ხ", "Ჯ", "Ჰ", "Ჱ", "Ჲ", "Ჳ", "Ჴ", "Ჵ", "Ჶ", "Ჷ",
    "Ჸ", "Ჹ", "Ჺ", "Ჽ", "Ჾ", "Ჿ", "U+1D00", "U+1D01", "U+1D02", "U+1D03", "U+1D04", "U+1D05",
    "U+1D06", "U+1D07", "U+1D08", "U+1D09", "U+1D0A", "U+1D0B", "U+1D0C", "U+1D0D", "U+1D0E", "U+1D0F", "U+1D10", "U+1D11",
    "U+1D12", "U+1D13", "U+1D14", "U+1D15", "U+1D16", "U+1D17", "U+1D18", "U+1D19", "U+1D1A", "U+1D1B", "U+1D1C", "U+1D1D",
    "U+1D1E", "U+1D1F", "U+1D20", "U+1D21", "U+1D22", "U+1D23", "U+1D24", "U+1D25", "U+1D26", "U+1D27", "U+1D28", "U+1D29",
    "U+1D2A", "U+1D2B", "U+1D6B", "U+1D6C", "U+1D6D", "U+1D6E", "U+1D6F", "U+1D70", "U+1D71", "U+1D72", "U+1D73", "U+1D74",
    "U+1D75", "U+1D76", "U+1D77", "U+1D79", "U+1D7A", "U+1D7B", "U+1D7C", "U+1D7D", "U+1D7E", "U+1D7F", "ᶀ", "ᶁ",
    "ᶂ", "ᶃ", "ᶄ", "ᶅ", "ᶆ", "ᶇ", "ᶈ", "ᶉ", "ᶊ", "ᶋ", "ᶌ", "ᶍ",
    "ᶎ", "ᶏ", "ᶐ", "ᶑ", "ᶒ", "ᶓ", "ᶔ", "ᶕ", "ᶖ", "ᶗ", "ᶘ", "ᶙ",
    "ᶚ", "U+1E00", "U+1E01", "U+1E02", "U+1E03", "U+1E04", "U+1E05", "U+1E06", "U+1E07", "U+1E08", "U+1E09", "U+1E0A",
    "U+1E0B", "U+1E0C", "U+1E0D", "U+1E0E", "U+1E0F", "U+1E10", "U+1E11", "U+1E12", "U+1E13", "U+1E14", "U+1E15", "U+1E16",
    "U+1E17", "U+1E18", "U+1E19", "U+1E1A", "U+1E1B", "U+1E1C", "U+1E1D", "U+1E1E", "U+1E1F", "U+1E20", "U+1E21", "U+1E22",
    "U+1E23", "U+1E24", "U+1E25", "U+1E26", "U+1E27", "U+1E28", "U+1E29", "U+1E2A", "U+1E2B", "U+1E2C", "U+1E2D", "U+1E2E",
    "U+1E2F", "U+1E30", "U+1E31", "U+1E32", "U+1E33", "U+1E34", "U+1E35", "U+1E36", "U+1E37", "U+1E38", "U+1E39", "U+1E3A",
    "U+1E3B", "U+1E3C", "U+1E3D", "U+1E3E", "U+1E3F", "U+1E40", "U+1E41", "U+1E42", "U+1E43", "U+1E44", "U+1E45", "U+1E46",
    "U+1E47", "U+1E48", "U+1E49", "U+1E4A", "U+1E4B", "U+1E4C", "U+1E4D", "U+1E4E", "U+1E4F", "U+1E50", "U+1E51", "U+1E52",
    "U+1E53", "U+1E54", "U+1E55", "U+1E56", "U+1E57", "U+1E58", "U+1E59", "U+1E5A", "U+1E5B", "U+1E5C", "U+1E5D", "U+1E5E",
    "U+1E5F", "U+1E60", "U+1E61", "U+1E62", "U+1E63", "U+1E64", "U+1E65", "U+1E66", "U+1E67", "U+1E68", "U+1E69", "U+1E6A",
    "U+1E6B", "U+1E6C", "U+1E6D", "U+1E6E", "U+1E6F", "U+1E70", "U+1E71", "U+1E72", "U+1E73", "U+1E74", "U+1E75", "U+1E76",
    "U+1E77", "U+1E78", "U+1E79", "U+1E7A", "U+1E7B", "U+1E7C", "U+1E7D", "U+1E7E", "U+1E7F", "Ẁ", "ẁ", "Ẃ",
    "ẃ", "Ẅ", "ẅ", "Ẇ", "ẇ", "Ẉ", "ẉ", "Ẋ", "ẋ", "Ẍ", "ẍ", "Ẏ",
    "ẏ", "Ẑ", "ẑ", "Ẓ", "ẓ", "Ẕ", "ẕ", "ẖ", "ẗ", "ẘ", "ẙ", "ẚ",
    "ẛ", "ẜ", "ẝ", "ẞ", "ẟ", "Ạ", "ạ", "Ả", "ả", "Ấ", "ấ", "Ầ",
    "ầ", "Ẩ", "ẩ", "Ẫ", "ẫ", "Ậ", "ậ", "Ắ", "ắ", "Ằ", "ằ", "Ẳ",
    "ẳ", "Ẵ", "ẵ", "Ặ", "ặ", "Ẹ", "ẹ", "Ẻ", "ẻ", "Ẽ", "ẽ", "Ế",
    "ế", "Ề", "ề", "Ể", "ể", "Ễ", "ễ", "Ệ", "ệ", "Ỉ", "ỉ", "Ị",
    "ị", "Ọ", "ọ", "Ỏ", "ỏ", "Ố", "ố", "Ồ", "ồ", "Ổ", "ổ", "Ỗ",
    "ỗ", "Ộ", "ộ", "Ớ", "ớ", "Ờ", "ờ", "Ở", "ở", "Ỡ", "ỡ", "Ợ",
    "ợ", "Ụ", "ụ", "Ủ", "ủ", "Ứ", "ứ", "Ừ", "ừ", "Ử", "ử", "Ữ",
    "ữ", "Ự", "ự", "Ỳ", "ỳ", "Ỵ", "ỵ", "Ỷ", "ỷ", "Ỹ", "ỹ", "Ỻ",
    "ỻ", "Ỽ", "ỽ", "Ỿ", "ỿ", "U+1F00", "U+1F01", "U+1F02", "U+1F03", "U+1F04", "U+1F05", "U+1F06",
    "U+1F07", "U+1F08", "U+1F09", "U+1F0A", "U+1F0B", "U+1F0C", "U+1F0D", "U+1F0E", "U+1F0F", "U+1F10", "U+1F11", "U+1F12",
    "U+1F13", "U+1F14", "U+1F15", "U+1F18", "U+1F19", "U+1F1A", "U+1F1B", "U+1F1C", "U+1F1D", "U+1F20", "U+1F21", "U+1F22",
    "U+1F23", "U+1F24", "U+1F25", "U+1F26", "U+1F27", "U+1F28", "U+1F29", "U+1F2A", "U+1F2B", "U+1F2C", "U+1F2D", "U+1F2E",
    "U+1F2F", "U+1F30", "U+1F31", "U+1F32", "U+1F33", "U+1F34", "U+1F35", "U+1F36", "U+1F37", "U+1F38", "U+1F39", "U+1F3A",
    "U+1F3B", "U+1F3C", "U+1F3D", "U+1F3E", "U+1F3F", "U+1F40", "U+1F41", "U+1F42", "U+1F43", "U+1F44", "U+1F45", "U+1F48",
    "U+1F49", "U+1F4A", "U+1F4B", "U+1F4C", "U+1F4D", "U+1F50", "U+1F51", "U+1F52", "U+1F53", "U+1F54", "U+1F55", "U+1F56",
    "U+1F57", "U+1F59", "U+1F5B", "U+1F5D", "U+1F5F", "U+1F60", "U+1F61", "U+1F62", "U+1F63", "U+1F64", "U+1F65", "U+1F66",
    "U+1F67", "U+1F68", "U+1F69", "U+1F6A", "U+1F6B", "U+1F6C", "U+1F6D", "U+1F6E", "U+1F6F", "U+1F70", "U+1F71", "U+1F72",
    "U+1F73", "U+1F74", "U+1F75", "U+1F76", "U+1F77", "U+1F78", "U+1F79", "U+1F7A", "U+1F7B", "U+1F7C", "U+1F7D", "ᾀ",
    "ᾁ", "ᾂ", "ᾃ", "ᾄ", "ᾅ", "ᾆ", "ᾇ", "ᾈ", "ᾉ", "ᾊ", "ᾋ", "ᾌ",
    "ᾍ", "ᾎ", "ᾏ", "ᾐ", "ᾑ", "ᾒ", "ᾓ", "ᾔ", "ᾕ", "ᾖ", "ᾗ", "ᾘ",
    "ᾙ", "ᾚ", "ᾛ", "ᾜ", "ᾝ", "ᾞ", "ᾟ", "ᾠ", "ᾡ", "ᾢ", "ᾣ", "ᾤ",
    "ᾥ", "ᾦ", "ᾧ", "ᾨ", "ᾩ", "ᾪ", "ᾫ", "ᾬ", "ᾭ", "ᾮ", "ᾯ", "ᾰ",
    "ᾱ", "ᾲ", "ᾳ", "ᾴ", "ᾶ", "ᾷ", "Ᾰ", "Ᾱ", "Ὰ", "Ά", "ᾼ", "ι",
    "ῂ", "ῃ", "ῄ", "ῆ", "ῇ", "Ὲ", "Έ", "Ὴ", "Ή", "ῌ", "ῐ", "ῑ",
    "ῒ", "ΐ", "ῖ", "ῗ", "Ῐ", "Ῑ", "Ὶ", "Ί", "ῠ", "ῡ", "ῢ", "ΰ",
    "ῤ", "ῥ", "ῦ", "ῧ", "Ῠ", "Ῡ", "Ὺ", "Ύ", "Ῥ", "ῲ", "ῳ", "ῴ",
    "ῶ", "ῷ", "Ὸ", "Ό", "Ὼ", "Ώ", "ῼ", "U+2102", "U+2107", "U+210A", "U+210B", "U+210C",
    "U+210D", "U+210E", "U+210F", "U+2110", "U+2111", "U+2112", "U+2113", "U+2115", "U+2119", "U+211A", "U+211B", "U+211C",
    "U+211D", "U+2124", "U+2126", "U+2128", "U+212A", "U+212B", "U+212C", "U+212D", "U+212F", "U+2130", "U+2131", "U+2132",
    "U+2133", "U+2134", "U+2139", "U+213C", "U+213D", "U+213E", "U+213F", "U+2145", "U+2146", "U+2147", "U+2148", "U+2149",
    "U+214E", "U+2160", "U+2161", "U+2162", "U+2163", "U+2164", "U+2165", "U+2166", "U+2167", "U+2168", "U+2169", "U+216A",
    "U+216B", "U+216C", "U+216D", "U+216E", "U+216F", "U+2170", "U+2171", "U+2172", "U+2173", "U+2174", "U+2175", "U+2176",
    "U+2177", "U+2178", "U+2179", "U+217A", "U+217B", "U+217C", "U+217D", "U+217E", "U+217F", "Ↄ", "ↄ", "Ⓐ",
    "Ⓑ", "Ⓒ", "Ⓓ", "Ⓔ", "Ⓕ", "Ⓖ", "Ⓗ", "Ⓘ", "Ⓙ", "Ⓚ", "Ⓛ", "Ⓜ",
    "Ⓝ", "Ⓞ", "Ⓟ", "Ⓠ", "Ⓡ", "Ⓢ", "Ⓣ", "Ⓤ", "Ⓥ", "Ⓦ", "Ⓧ", "Ⓨ",
    "Ⓩ", "ⓐ", "ⓑ", "ⓒ", "ⓓ", "ⓔ", "ⓕ", "ⓖ", "ⓗ", "ⓘ", "ⓙ", "ⓚ",
    "ⓛ", "ⓜ", "ⓝ", "ⓞ", "ⓟ", "ⓠ", "ⓡ", "ⓢ", "ⓣ", "ⓤ", "ⓥ", "ⓦ",
    "ⓧ", "ⓨ", "ⓩ", "U+2C00", "U+2C01", "U+2C02", "U+2C03", "U+2C04", "U+2C05", "U+2C06", "U+2C07", "U+2C08",
    "U+2C09", "U+2C0A", "U+2C0B", "U+2C0C", "U+2C0D", "U+2C0E", "U+2C0F", "U+2C10", "U+2C11", "U+2C12", "U+2C13", "U+2C14",
    "U+2C15", "U+2C16", "U+2C17", "U+2C18", "U+2C19", "U+2C1A", "U+2C1B", "U+2C1C", "U+2C1D", "U+2C1E", "U+2C1F", "U+2C20",
    "U+2C21", "U+2C22", "U+2C23", "U+2C24", "U+2C25", "U+2C26", "U+2C27", "U+2C28", "U+2C29", "U+2C2A", "U+2C2B", "U+2C2C",
    "U+2C2D", "U+2C2E", "U+2C2F", "U+2C30", "U+2C31", "U+2C32", "U+2C33", "U+2C34", "U+2C35", "U+2C36", "U+2C37", "U+2C38",
    "U+2C39", "U+2C3A", "U+2C3B", "U+2C3C", "U+2C3D", "U+2C3E", "U+2C3F", "U+2C40", "U+2C41", "U+2C42", "U+2C43", "U+2C44",
    "U+2C45", "U+2C46", "U+2C47", "U+2C48", "U+2C49", "U+2C4A", "U+2C4B", "U+2C4C", "U+2C4D", "U+2C4E", "U+2C4F", "U+2C50",
    "U+2C51", "U+2C52", "U+2C53", "U+2C54", "U+2C55", "U+2C56", "U+2C57", "U+2C58", "U+2C59", "U+2C5A", "U+2C5B", "U+2C5C",
    "U+2C5D", "U+2C5E", "U+2C5F", "U+2C60", "U+2C61", "U+2C62", "U+2C63", "U+2C64", "U+2C65", "U+2C66", "U+2C67", "U+2C68",
    "U+2C69", "U+2C6A", "U+2C6B", "U+2C6C", "U+2C6D", "U+2C6E", "U+2C6F", "U+2C70", "U+2C71", "U+2C72", "U+2C73", "U+2C74",
    "U+2C75", "U+2C76", "U+2C77", "U+2C78", "U+2C79", "U+2C7A", "U+2C7B", "U+2C7E", "U+2C7F", "Ⲁ", "ⲁ", "Ⲃ",
    "ⲃ", "Ⲅ", "ⲅ", "Ⲇ", "ⲇ", "Ⲉ", "ⲉ", "Ⲋ", "ⲋ", "Ⲍ", "ⲍ", "Ⲏ",
    "ⲏ", "Ⲑ", "ⲑ", "Ⲓ", "ⲓ", "Ⲕ", "ⲕ", "Ⲗ", "ⲗ", "Ⲙ", "ⲙ", "Ⲛ",
    "ⲛ", "Ⲝ", "ⲝ", "Ⲟ", "ⲟ", "Ⲡ", "ⲡ", "Ⲣ", "ⲣ", "Ⲥ", "ⲥ", "Ⲧ",
    "ⲧ", "Ⲩ", "ⲩ", "Ⲫ", "ⲫ", "Ⲭ", "ⲭ", "Ⲯ", "ⲯ", "Ⲱ", "ⲱ", "Ⲳ",
    "ⲳ", "Ⲵ", "ⲵ", "Ⲷ", "ⲷ", "Ⲹ", "ⲹ", "Ⲻ", "ⲻ", "Ⲽ", "ⲽ", "Ⲿ",
    "ⲿ", "Ⳁ", "ⳁ", "Ⳃ", "ⳃ", "Ⳅ", "ⳅ", "Ⳇ", "ⳇ", "Ⳉ", "ⳉ", "Ⳋ",
    "ⳋ", "Ⳍ", "ⳍ", "Ⳏ", "ⳏ", "Ⳑ", "ⳑ", "Ⳓ", "ⳓ", "Ⳕ", "ⳕ", "Ⳗ",
    "ⳗ", "Ⳙ", "ⳙ", "Ⳛ", "ⳛ", "Ⳝ", "ⳝ", "Ⳟ", "ⳟ", "Ⳡ", "ⳡ", "Ⳣ",
    "ⳣ", "ⳤ", "Ⳬ", "ⳬ", "Ⳮ", "ⳮ", "Ⳳ", "ⳳ", "U+2D00", "U+2D01", "U+2D02", "U+2D03",
    "U+2D04", "U+2D05", "U+2D06", "U+2D07", "U+2D08", "U+2D09", "U+2D0A", "U+2D0B", "U+2D0C", "U+2D0D", "U+2D0E", "U+2D0F",
    "U+2D10", "U+2D11", "U+2D12", "U+2D13", "U+2D14", "U+2D15", "U+2D16", "U+2D17", "U+2D18", "U+2D19", "U+2D1A", "U+2D1B",
    "U+2D1C", "U+2D1D", "U+2D1E", "U+2D1F", "U+2D20", "U+2D21", "U+2D22", "U+2D23", "U+2D24", "U+2D25", "U+2D27", "U+2D2D",
    "U+A640", "U+A641", "U+A642", "U+A643", "U+A644", "U+A645", "U+A646", "U+A647", "U+A648", "U+A649", "U+A64A", "U+A64B",
    "U+A64C", "U+A64D", "U+A64E", "U+A64F", "U+A650", "U+A651", "U+A652", "U+A653", "U+A654", "U+A655", "U+A656", "U+A657",
    "U+A658", "U+A659", "U+A65A", "U+A65B", "U+A65C", "U+A65D", "U+A65E", "U+A65F", "U+A660", "U+A661", "U+A662", "U+A663",
    "U+A664", "U+A665", "U+A666", "U+A667", "U+A668", "U+A669", "U+A66A", "U+A66B", "U+A66C", "U+A66D", "Ꚁ", "ꚁ",
    "Ꚃ", "ꚃ", "Ꚅ", "ꚅ", "Ꚇ", "ꚇ", "Ꚉ", "ꚉ", "Ꚋ", "ꚋ", "Ꚍ", "ꚍ",
    "Ꚏ", "ꚏ", "Ꚑ", "ꚑ", "Ꚓ", "ꚓ", "Ꚕ", "ꚕ", "Ꚗ", "ꚗ", "Ꚙ", "ꚙ",
    "Ꚛ", "ꚛ", "U+A722", "U+A723", "U+A724", "U+A725", "U+A726", "U+A727", "U+A728", "U+A729", "U+A72A", "U+A72B",
    "U+A72C", "U+A72D", "U+A72E", "U+A72F", "U+A730", "U+A731", "U+A732", "U+A733", "U+A734", "U+A735", "U+A736", "U+A737",
    "U+A738", "U+A739", "U+A73A", "U+A73B", "U+A73C", "U+A73D", "U+A73E", "U+A73F", "U+A740", "U+A741", "U+A742", "U+A743",
    "U+A744", "U+A745", "U+A746", "U+A747", "U+A748", "U+A749", "U+A74A", "U+A74B", "U+A74C", "U+A74D", "U+A74E", "U+A74F",
    "U+A750", "U+A751", "U+A752", "U+A753", "U+A754", "U+A755", "U+A756", "U+A757", "U+A758", "U+A759", "U+A75A", "U+A75B",
    "U+A75C", "U+A75D", "U+A75E", "U+A75F", "U+A760", "U+A761", "U+A762", "U+A763", "U+A764", "U+A765", "U+A766", "U+A767",
    "U+A768", "U+A769", "U+A76A", "U+A76B", "U+A76C", "U+A76D", "U+A76E", "U+A76F", "U+A771", "U+A772", "U+A773", "U+A774",
    "U+A775", "U+A776", "U+A777", "U+A778", "U+A779", "U+A77A", "U+A77B", "U+A77C", "U+A77D", "U+A77E", "U+A77F", "Ꞁ",
    "ꞁ", "Ꞃ", "ꞃ", "Ꞅ", "ꞅ", "Ꞇ", "ꞇ", "Ꞌ", "ꞌ", "Ɥ", "ꞎ", "Ꞑ",
    "ꞑ", "Ꞓ", "ꞓ", "ꞔ", "ꞕ", "Ꞗ", "ꞗ", "Ꞙ", "ꞙ", "Ꞛ", "ꞛ", "Ꞝ",
    "ꞝ", "Ꞟ", "ꞟ", "Ꞡ", "ꞡ", "Ꞣ", "ꞣ", "Ꞥ", "ꞥ", "Ꞧ", "ꞧ", "Ꞩ",
    "ꞩ", "Ɦ", "Ɜ", "Ɡ", "Ɬ", "Ɪ", "ꞯ", "Ʞ", "Ʇ", "Ʝ", "Ꭓ", "Ꞵ",
    "ꞵ", "Ꞷ", "ꞷ", "Ꞹ", "ꞹ", "Ꞻ", "ꞻ", "Ꞽ", "ꞽ", "Ꞿ", "ꞿ", "Ꟁ",
    "ꟁ", "Ꟃ", "ꟃ", "Ꞔ", "Ʂ", "Ᶎ", "Ꟈ", "ꟈ", "Ꟊ", "ꟊ", "Ꟑ", "ꟑ",
    "ꟓ", "ꟕ", "Ꟗ", "ꟗ", "Ꟙ", "ꟙ", "Ꟶ", "ꟶ", "ꟺ", "U+AB30", "U+AB31", "U+AB32",
    "U+AB33", "U+AB34", "U+AB35", "U+AB36", "U+AB37", "U+AB38", "U+AB39", "U+AB3A", "U+AB3B", "U+AB3C", "U+AB3D", "U+AB3E",
    "U+AB3F", "U+AB40", "U+AB41", "U+AB42", "U+AB43", "U+AB44", "U+AB45", "U+AB46", "U+AB47", "U+AB48", "U+AB49", "U+AB4A",
    "U+AB4B", "U+AB4C", "U+AB4D", "U+AB4E", "U+AB4F", "U+AB50", "U+AB51", "U+AB52", "U+AB53", "U+AB54", "U+AB55", "U+AB56",
    "U+AB57", "U+AB58", "U+AB59", "U+AB5A", "U+AB60", "U+AB61", "U+AB62", "U+AB63", "U+AB64", "U+AB65", "U+AB66", "U+AB67",
    "U+AB68", "U+AB70", "U+AB71", "U+AB72", "U+AB73", "U+AB74", "U+AB75", "U+AB76", "U+AB77", "U+AB78", "U+AB79", "U+AB7A",
    "U+AB7B", "U+AB7C", "U+AB7D", "U+AB7E", "U+AB7F", "ꮀ", "ꮁ", "ꮂ", "ꮃ", "ꮄ", "ꮅ", "ꮆ",
    "ꮇ", "ꮈ", "ꮉ", "ꮊ", "ꮋ", "ꮌ", "ꮍ", "ꮎ", "ꮏ", "ꮐ", "ꮑ", "ꮒ",
    "ꮓ", "ꮔ", "ꮕ", "ꮖ", "ꮗ", "ꮘ", "ꮙ", "ꮚ", "ꮛ", "ꮜ", "ꮝ", "ꮞ",
    "ꮟ", "ꮠ", "ꮡ", "ꮢ", "ꮣ", "ꮤ", "ꮥ", "ꮦ", "ꮧ", "ꮨ", "ꮩ", "ꮪ",
    "ꮫ", "ꮬ", "ꮭ", "ꮮ", "ꮯ", "ꮰ", "ꮱ", "ꮲ", "ꮳ", "ꮴ", "ꮵ", "ꮶ",
    "ꮷ", "ꮸ", "ꮹ", "ꮺ", "ꮻ", "ꮼ", "ꮽ", "ꮾ", "ꮿ", "U+FB00", "U+FB01", "U+FB02",
    "U+FB03", "U+FB04", "U+FB05", "U+FB06", "U+FB13", "U+FB14", "U+FB15", "U+FB16", "U+FB17", "U+FF21", "U+FF22", "U+FF23",
    "U+FF24", "U+FF25", "U+FF26", "U+FF27", "U+FF28", "U+FF29", "U+FF2A", "U+FF2B", "U+FF2C", "U+FF2D", "U+FF2E", "U+FF2F",
    "U+FF30", "U+FF31", "U+FF32", "U+FF33", "U+FF34", "U+FF35", "U+FF36", "U+FF37", "U+FF38", "U+FF39", "U+FF3A", "U+FF41",
    "U+FF42", "U+FF43", "U+FF44", "U+FF45", "U+FF46", "U+FF47", "U+FF48", "U+FF49", "U+FF4A", "U+FF4B", "U+FF4C", "U+FF4D",
    "U+FF4E", "U+FF4F", "U+FF50", "U+FF51", "U+FF52", "U+FF53", "U+FF54", "U+FF55", "U+FF56", "U+FF57", "U+FF58", "U+FF59",
    "U+FF5A", "U+10400", "U+10401", "U+10402", "U+10403", "U+10404", "U+10405", "U+10406", "U+10407", "U+10408", "U+10409", "U+1040A",
    "U+1040B", "U+1040C", "U+1040D", "U+1040E", "U+1040F", "U+10410", "U+10411", "U+10412", "U+10413", "U+10414", "U+10415", "U+10416",
    "U+10417", "U+10418", "U+10419", "U+1041A", "U+1041B", "U+1041C", "U+1041D", "U+1041E", "U+1041F", "U+10420", "U+10421", "U+10422",
    "U+10423", "U+10424", "U+10425", "U+10426", "U+10427", "U+10428", "U+10429", "U+1042A", "U+1042B", "U+1042C", "U+1042D", "U+1042E",
    "U+1042F", "U+10430", "U+10431", "U+10432", "U+10433", "U+10434", "U+10435", "U+10436", "U+10437", "U+10438", "U+10439", "U+1043A",
    "U+1043B", "U+1043C", "U+1043D", "U+1043E", "U+1043F", "U+10440", "U+10441", "U+10442", "U+10443", "U+10444", "U+10445", "U+10446",
    "U+10447", "U+10448", "U+10449", "U+1044A", "U+1044B", "U+1044C", "U+1044D", "U+1044E", "U+1044F", "U+104B0", "U+104B1", "U+104B2",
    "U+104B3", "U+104B4", "U+104B5", "U+104B6", "U+104B7", "U+104B8", "U+104B9", "U+104BA", "U+104BB", "U+104BC", "U+104BD", "U+104BE",
    "U+104BF", "U+104C0", "U+104C1", "U+104C2", "U+104C3", "U+104C4", "U+104C5", "U+104C6", "U+104C7", "U+104C8", "U+104C9", "U+104CA",
    "U+104CB", "U+104CC", "U+104CD", "U+104CE", "U+104CF", "U+104D0", "U+104D1", "U+104D2", "U+104D3", "U+104D8", "U+104D9", "U+104DA",
    "U+104DB", "U+104DC", "U+104DD", "U+104DE", "U+104DF", "U+104E0", "U+104E1", "U+104E2", "U+104E3", "U+104E4", "U+104E5", "U+104E6",
    "U+104E7", "U+104E8", "U+104E9", "U+104EA", "U+104EB", "U+104EC", "U+104ED", "U+104EE", "U+104EF", "U+104F0", "U+104F1", "U+104F2",
    "U+104F3", "U+104F4", "U+104F5", "U+104F6", "U+104F7", "U+104F8", "U+104F9", "U+104FA", "U+104FB", "U+10570", "U+10571", "U+10572",
    "U+10573", "U+10574", "U+10575", "U+10576", "U+10577", "U+10578", "U+10579", "U+1057A", "U+1057C", "U+1057D", "U+1057E", "U+1057F",
    "U+10580", "U+10581", "U+10582", "U+10583", "U+10584", "U+10585", "U+10586", "U+10587", "U+10588", "U+10589", "U+1058A", "U+1058C",
    "U+1058D", "U+1058E", "U+1058F", "U+10590", "U+10591", "U+10592", "U+10594", "U+10595", "U+10597", "U+10598", "U+10599", "U+1059A",
    "U+1059B", "U+1059C", "U+1059D", "U+1059E", "U+1059F", "U+105A0", "U+105A1", "U+105A3", "U+105A4", "U+105A5", "U+105A6", "U+105A7",
    "U+105A8", "U+105A9", "U+105AA", "U+105AB", "U+105AC", "U+105AD", "U+105AE", "U+105AF", "U+105B0", "U+105B1", "U+105B3", "U+105B4",
    "U+105B5", "U+105B6", "U+105B7", "U+105B8", "U+105B9", "U+105BB", "U+105BC", "U+10C80", "U+10C81", "U+10C82", "U+10C83", "U+10C84",
    "U+10C85", "U+10C86", "U+10C87", "U+10C88", "U+10C89", "U+10C8A", "U+10C8B", "U+10C8C", "U+10C8D", "U+10C8E", "U+10C8F", "U+10C90",
    "U+10C91", "U+10C92", "U+10C93", "U+10C94", "U+10C95", "U+10C96", "U+10C97", "U+10C98", "U+10C99", "U+10C9A", "U+10C9B", "U+10C9C",
    "U+10C9D", "U+10C9E", "U+10C9F", "U+10CA0", "U+10CA1", "U+10CA2", "U+10CA3", "U+10CA4", "U+10CA5", "U+10CA6", "U+10CA7", "U+10CA8",
    "U+10CA9", "U+10CAA", "U+10CAB", "U+10CAC", "U+10CAD", "U+10CAE", "U+10CAF", "U+10CB0", "U+10CB1", "U+10CB2", "U+10CC0", "U+10CC1",
    "U+10CC2", "U+10CC3", "U+10CC4", "U+10CC5", "U+10CC6", "U+10CC7", "U+10CC8", "U+10CC9", "U+10CCA", "U+10CCB", "U+10CCC", "U+10CCD",
    "U+10CCE", "U+10CCF", "U+10CD0", "U+10CD1", "U+10CD2", "U+10CD3", "U+10CD4", "U+10CD5", "U+10CD6", "U+10CD7", "U+10CD8", "U+10CD9",
    "U+10CDA", "U+10CDB", "U+10CDC", "U+10CDD", "U+10CDE", "U+10CDF", "U+10CE0", "U+10CE1", "U+10CE2", "U+10CE3", "U+10CE4", "U+10CE5",
    "U+10CE6", "U+10CE7", "U+10CE8", "U+10CE9", "U+10CEA", "U+10CEB", "U+10CEC", "U+10CED", "U+10CEE", "U+10CEF", "U+10CF0", "U+10CF1",
    "U+10CF2", "U+118A0", "U+118A1", "U+118A2", "U+118A3", "U+118A4", "U+118A5", "U+118A6", "U+118A7", "U+118A8", "U+118A9", "U+118AA",
    "U+118AB", "U+118AC", "U+118AD", "U+118AE", "U+118AF", "U+118B0", "U+118B1", "U+118B2", "U+118B3", "U+118B4", "U+118B5", "U+118B6",
    "U+118B7", "U+118B8", "U+118B9", "U+118BA", "U+118BB", "U+118BC", "U+118BD", "U+118BE", "U+118BF", "U+118C0", "U+118C1", "U+118C2",
    "U+118C3", "U+118C4", "U+118C5", "U+118C6", "U+118C7", "U+118C8", "U+118C9", "U+118CA", "U+118CB", "U+118CC", "U+118CD", "U+118CE",
    "U+118CF", "U+118D0", "U+118D1", "U+118D2", "U+118D3", "U+118D4", "U+118D5", "U+118D6", "U+118D7", "U+118D8", "U+118D9", "U+118DA",
    "U+118DB", "U+118DC", "U+118DD", "U+118DE", "U+118DF", "U+16E40", "U+16E41", "U+16E42", "U+16E43", "U+16E44", "U+16E45", "U+16E46",
    "U+16E47", "U+16E48", "U+16E49", "U+16E4A", "U+16E4B", "U+16E4C", "U+16E4D", "U+16E4E", "U+16E4F", "U+16E50", "U+16E51", "U+16E52",
    "U+16E53", "U+16E54", "U+16E55", "U+16E56", "U+16E57", "U+16E58", "U+16E59", "U+16E5A", "U+16E5B", "U+16E5C", "U+16E5D", "U+16E5E",
    "U+16E5F", "U+16E60", "U+16E61", "U+16E62", "U+16E63", "U+16E64", "U+16E65", "U+16E66", "U+16E67", "U+16E68", "U+16E69", "U+16E6A",
    "U+16E6B", "U+16E6C", "U+16E6D", "U+16E6E", "U+16E6F", "U+16E70", "U+16E71", "U+16E72", "U+16E73", "U+16E74", "U+16E75", "U+16E76",
    "U+16E77", "U+16E78", "U+16E79", "U+16E7A", "U+16E7B", "U+16E7C", "U+16E7D", "U+16E7E", "U+16E7F", "U+1D400", "U+1D401", "U+1D402",
    "U+1D403", "U+1D404", "U+1D405", "U+1D406", "U+1D407", "U+1D408", "U+1D409", "U+1D40A", "U+1D40B", "U+1D40C", "U+1D40D", "U+1D40E",
    "U+1D40F", "U+1D410", "U+1D411", "U+1D412", "U+1D413", "U+1D414", "U+1D415", "U+1D416", "U+1D417", "U+1D418", "U+1D419", "U+1D41A",
    "U+1D41B", "U+1D41C", "U+1D41D", "U+1D41E", "U+1D41F", "U+1D420", "U+1D421", "U+1D422", "U+1D423", "U+1D424", "U+1D425", "U+1D426",
    "U+1D427", "U+1D428", "U+1D429", "U+1D42A", "U+1D42B", "U+1D42C", "U+1D42D", "U+1D42E", "U+1D42F", "U+1D430", "U+1D431", "U+1D432",
    "U+1D433", "U+1D434", "U+1D435", "U+1D436", "U+1D437", "U+1D438", "U+1D439", "U+1D43A", "U+1D43B", "U+1D43C", "U+1D43D", "U+1D43E",
    "U+1D43F", "U+1D440", "U+1D441", "U+1D442", "U+1D443", "U+1D444", "U+1D445", "U+1D446", "U+1D447", "U+1D448", "U+1D449", "U+1D44A",
    "U+1D44B", "U+1D44C", "U+1D44D", "U+1D44E", "U+1D44F", "U+1D450", "U+1D451", "U+1D452", "U+1D453", "U+1D454", "U+1D456", "U+1D457",
    "U+1D458", "U+1D459", "U+1D45A", "U+1D45B", "U+1D45C", "U+1D45D", "U+1D45E", "U+1D45F", "U+1D460", "U+1D461", "U+1D462", "U+1D463",
    "U+1D464", "U+1D465", "U+1D466", "U+1D467", "U+1D468", "U+1D469", "U+1D46A", "U+1D46B", "U+1D46C", "U+1D46D", "U+1D46E", "U+1D46F",
    "U+1D470", "U+1D471", "U+1D472", "U+1D473", "U+1D474", "U+1D475", "U+1D476", "U+1D477", "U+1D478", "U+1D479", "U+1D47A", "U+1D47B",
    "U+1D47C", "U+1D47D", "U+1D47E", "U+1D47F", "U+1D480", "U+1D481", "U+1D482", "U+1D483", "U+1D484", "U+1D485", "U+1D486", "U+1D487",
    "U+1D488", "U+1D489", "U+1D48A", "U+1D48B", "U+1D48C", "U+1D48D", "U+1D48E", "U+1D48F", "U+1D490", "U+1D491", "U+1D492", "U+1D493",
    "U+1D494", "U+1D495", "U+1D496", "U+1D497", "U+1D498", "U+1D499", "U+1D49A", "U+1D49B", "U+1D49C", "U+1D49E", "U+1D49F", "U+1D4A2",
    "U+1D4A5", "U+1D4A6", "U+1D4A9", "U+1D4AA", "U+1D4AB", "U+1D4AC", "U+1D4AE", "U+1D4AF", "U+1D4B0", "U+1D4B1", "U+1D4B2", "U+1D4B3",
    "U+1D4B4", "U+1D4B5", "U+1D4B6", "U+1D4B7", "U+1D4B8", "U+1D4B9", "U+1D4BB", "U+1D4BD", "U+1D4BE", "U+1D4BF", "U+1D4C0", "U+1D4C1",
    "U+1D4C2", "U+1D4C3", "U+1D4C5", "U+1D4C6", "U+1D4C7", "U+1D4C8", "U+1D4C9", "U+1D4CA", "U+1D4CB", "U+1D4CC", "U+1D4CD", "U+1D4CE",
    "U+1D4CF", "U+1D4D0", "U+1D4D1", "U+1D4D2", "U+1D4D3", "U+1D4D4", "U+1D4D5", "U+1D4D6", "U+1D4D7", "U+1D4D8", "U+1D4D9", "U+1D4DA",
    "U+1D4DB", "U+1D4DC", "U+1D4DD", "U+1D4DE", "U+1D4DF", "U+1D4E0", "U+1D4E1", "U+1D4E2", "U+1D4E3", "U+1D4E4", "U+1D4E5", "U+1D4E6",
    "U+1D4E7", "U+1D4E8", "U+1D4E9", "U+1D4EA", "U+1D4EB", "U+1D4EC", "U+1D4ED", "U+1D4EE", "U+1D4EF", "U+1D4F0", "U+1D4F1", "U+1D4F2",
    "U+1D4F3", "U+1D4F4", "U+1D4F5", "U+1D4F6", "U+1D4F7", "U+1D4F8", "U+1D4F9", "U+1D4FA", "U+1D4FB", "U+1D4FC", "U+1D4FD", "U+1D4FE",
    "U+1D4FF", "U+1D500", "U+1D501", "U+1D502", "U+1D503", "U+1D504", "U+1D505", "U+1D507", "U+1D508", "U+1D509", "U+1D50A", "U+1D50D",
    "U+1D50E", "U+1D50F", "U+1D510", "U+1D511", "U+1D512", "U+1D513", "U+1D514", "U+1D516", "U+1D517", "U+1D518", "U+1D519", "U+1D51A",
    "U+1D51B", "U+1D51C", "U+1D51E", "U+1D51F", "U+1D520", "U+1D521", "U+1D522", "U+1D523", "U+1D524", "U+1D525", "U+1D526", "U+1D527",
    "U+1D528", "U+1D529", "U+1D52A", "U+1D52B", "U+1D52C", "U+1D52D", "U+1D52E", "U+1D52F", "U+1D530", "U+1D531", "U+1D532", "U+1D533",
    "U+1D534", "U+1D535", "U+1D536", "U+1D537", "U+1D538", "U+1D539", "U+1D53B", "U+1D53C", "U+1D53D", "U+1D53E", "U+1D540", "U+1D541",
    "U+1D542", "U+1D543", "U+1D544", "U+1D546", "U+1D54A", "U+1D54B", "U+1D54C", "U+1D54D", "U+1D54E", "U+1D54F", "U+1D550", "U+1D552",
    "U+1D553", "U+1D554", "U+1D555", "U+1D556", "U+1D557", "U+1D558", "U+1D559", "U+1D55A", "U+1D55B", "U+1D55C", "U+1D55D", "U+1D55E",
    "U+1D55F", "U+1D560", "U+1D561", "U+1D562", "U+1D563", "U+1D564", "U+1D565", "U+1D566", "U+1D567", "U+1D568", "U+1D569", "U+1D56A",
    "U+1D56B", "U+1D56C", "U+1D56D", "U+1D56E", "U+1D56F", "U+1D570", "U+1D571", "U+1D572", "U+1D573", "U+1D574", "U+1D575", "U+1D576",
    "U+1D577", "U+1D578", "U+1D579", "U+1D57A", "U+1D57B", "U+1D57C", "U+1D57D", "U+1D57E", "U+1D57F", "U+1D580", "U+1D581", "U+1D582",
    "U+1D583", "U+1D584", "U+1D585", "U+1D586", "U+1D587", "U+1D588", "U+1D589", "U+1D58A", "U+1D58B", "U+1D58C", "U+1D58D", "U+1D58E",
    "U+1D58F", "U+1D590", "U+1D591", "U+1D592", "U+1D593", "U+1D594", "U+1D595", "U+1D596", "U+1D597", "U+1D598", "U+1D599", "U+1D59A",
    "U+1D59B", "U+1D59C", "U+1D59D", "U+1D59E", "U+1D59F", "U+1D5A0", "U+1D5A1", "U+1D5A2", "U+1D5A3", "U+1D5A4", "U+1D5A5", "U+1D5A6",
    "U+1D5A7", "U+1D5A8", "U+1D5A9", "U+1D5AA", "U+1D5AB", "U+1D5AC", "U+1D5AD", "U+1D5AE", "U+1D5AF", "U+1D5B0", "U+1D5B1", "U+1D5B2",
    "U+1D5B3", "U+1D5B4", "U+1D5B5", "U+1D5B6", "U+1D5B7", "U+1D5B8", "U+1D5B9", "U+1D5BA", "U+1D5BB", "U+1D5BC", "U+1D5BD", "U+1D5BE",
    "U+1D5BF", "U+1D5C0", "U+1D5C1", "U+1D5C2", "U+1D5C3", "U+1D5C4", "U+1D5C5", "U+1D5C6", "U+1D5C7", "U+1D5C8", "U+1D5C9", "U+1D5CA",
    "U+1D5CB", "U+1D5CC", "U+1D5CD", "U+1D5CE", "U+1D5CF", "U+1D5D0", "U+1D5D1", "U+1D5D2", "U+1D5D3", "U+1D5D4", "U+1D5D5", "U+1D5D6",
    "U+1D5D7", "U+1D5D8", "U+1D5D9", "U+1D5DA", "U+1D5DB", "U+1D5DC", "U+1D5DD", "U+1D5DE", "U+1D5DF", "U+1D5E0", "U+1D5E1", "U+1D5E2",
    "U+1D5E3", "U+1D5E4", "U+1D5E5", "U+1D5E6", "U+1D5E7", "U+1D5E8", "U+1D5E9", "U+1D5EA", "U+1D5EB", "U+1D5EC", "U+1D5ED", "U+1D5EE",
    "U+1D5EF", "U+1D5F0", "U+1D5F1", "U+1D5F2", "U+1D5F3", "U+1D5F4", "U+1D5F5", "U+1D5F6", "U+1D5F7", "U+1D5F8", "U+1D5F9", "U+1D5FA",
    "U+1D5FB", "U+1D5FC", "U+1D5FD", "U+1D5FE", "U+1D5FF", "U+1D600", "U+1D601", "U+1D602", "U+1D603", "U+1D604", "U+1D605", "U+1D606",
    "U+1D607", "U+1D608", "U+1D609", "U+1D60A", "U+1D60B", "U+1D60C", "U+1D60D", "U+1D60E", "U+1D60F", "U+1D610", "U+1D611", "U+1D612",
    "U+1D613", "U+1D614", "U+1D615", "U+1D616", "U+1D617", "U+1D618", "U+1D619", "U+1D61A", "U+1D61B", "U+1D61C", "U+1D61D", "U+1D61E",
    "U+1D61F", "U+1D620", "U+1D621", "U+1D622", "U+1D623", "U+1D624", "U+1D625", "U+1D626", "U+1D627", "U+1D628", "U+1D629", "U+1D62A",
    "U+1D62B", "U+1D62C", "U+1D62D", "U+1D62E", "U+1D62F", "U+1D630", "U+1D631", "U+1D632", "U+1D633", "U+1D634", "U+1D635", "U+1D636",
    "U+1D637", "U+1D638", "U+1D639", "U+1D63A", "U+1D63B", "U+1D63C", "U+1D63D", "U+1D63E", "U+1D63F", "U+1D640", "U+1D641", "U+1D642",
    "U+1D643", "U+1D644", "U+1D645", "U+1D646", "U+1D647", "U+1D648", "U+1D649", "U+1D64A", "U+1D64B", "U+1D64C", "U+1D64D", "U+1D64E",
    "U+1D64F", "U+1D650", "U+1D651", "U+1D652", "U+1D653", "U+1D654", "U+1D655", "U+1D656", "U+1D657", "U+1D658", "U+1D659", "U+1D65A",
    "U+1D65B", "U+1D65C", "U+1D65D", "U+1D65E", "U+1D65F", "U+1D660", "U+1D661", "U+1D662", "U+1D663", "U+1D664", "U+1D665", "U+1D666",
    "U+1D667", "U+1D668", "U+1D669", "U+1D66A", "U+1D66B", "U+1D66C", "U+1D66D", "U+1D66E", "U+1D66F", "U+1D670", "U+1D671", "U+1D672",
    "U+1D673", "U+1D674", "U+1D675", "U+1D676", "U+1D677", "U+1D678", "U+1D679", "U+1D67A", "U+1D67B", "U+1D67C", "U+1D67D", "U+1D67E",
    "U+1D67F", "U+1D680", "U+1D681", "U+1D682", "U+1D683", "U+1D684", "U+1D685", "U+1D686", "U+1D687", "U+1D688", "U+1D689", "U+1D68A",
    "U+1D68B", "U+1D68C", "U+1D68D", "U+1D68E", "U+1D68F", "U+1D690", "U+1D691", "U+1D692", "U+1D693", "U+1D694", "U+1D695", "U+1D696",
    "U+1D697", "U+1D698", "U+1D699", "U+1D69A", "U+1D69B", "U+1D69C", "U+1D69D", "U+1D69E", "U+1D69F", "U+1D6A0", "U+1D6A1", "U+1D6A2",
    "U+1D6A3", "U+1D6A4", "U+1D6A5", "U+1D6A8", "U+1D6A9", "U+1D6AA", "U+1D6AB", "U+1D6AC", "U+1D6AD", "U+1D6AE", "U+1D6AF", "U+1D6B0",
    "U+1D6B1", "U+1D6B2", "U+1D6B3", "U+1D6B4", "U+1D6B5", "U+1D6B6", "U+1D6B7", "U+1D6B8", "U+1D6B9", "U+1D6BA", "U+1D6BB", "U+1D6BC",
    "U+1D6BD", "U+1D6BE", "U+1D6BF", "U+1D6C0", "U+1D6C2", "U+1D6C3", "U+1D6C4", "U+1D6C5", "U+1D6C6", "U+1D6C7", "U+1D6C8", "U+1D6C9",
    "U+1D6CA", "U+1D6CB", "U+1D6CC", "U+1D6CD", "U+1D6CE", "U+1D6CF", "U+1D6D0", "U+1D6D1", "U+1D6D2", "U+1D6D3", "U+1D6D4", "U+1D6D5",
    "U+1D6D6", "U+1D6D7", "U+1D6D8", "U+1D6D9", "U+1D6DA", "U+1D6DC", "U+1D6DD", "U+1D6DE", "U+1D6DF", "U+1D6E0", "U+1D6E1", "U+1D6E2",
    "U+1D6E3", "U+1D6E4", "U+1D6E5", "U+1D6E6", "U+1D6E7", "U+1D6E8", "U+1D6E9", "U+1D6EA", "U+1D6EB", "U+1D6EC", "U+1D6ED", "U+1D6EE",
    "U+1D6EF", "U+1D6F0", "U+1D6F1", "U+1D6F2", "U+1D6F3", "U+1D6F4", "U+1D6F5", "U+1D6F6", "U+1D6F7", "U+1D6F8", "U+1D6F9", "U+1D6FA",
    "U+1D6FC", "U+1D6FD", "U+1D6FE", "U+1D6FF", "U+1D700", "U+1D701", "U+1D702", "U+1D703", "U+1D704", "U+1D705", "U+1D706", "U+1D707",
    "U+1D708", "U+1D709", "U+1D70A", "U+1D70B", "U+1D70C", "U+1D70D", "U+1D70E", "U+1D70F", "U+1D710", "U+1D711", "U+1D712", "U+1D713",
    "U+1D714", "U+1D716", "U+1D717", "U+1D718", "U+1D719", "U+1D71A", "U+1D71B", "U+1D71C", "U+1D71D", "U+1D71E", "U+1D71F", "U+1D720",
    "U+1D721", "U+1D722", "U+1D723", "U+1D724", "U+1D725", "U+1D726", "U+1D727", "U+1D728", "U+1D729", "U+1D72A", "U+1D72B", "U+1D72C",
    "U+1D72D", "U+1D72E", "U+1D72F", "U+1D730", "U+1D731", "U+1D732", "U+1D733", "U+1D734", "U+1D736", "U+1D737", "U+1D738", "U+1D739",
    "U+1D73A", "U+1D73B", "U+1D73C", "U+1D73D", "U+1D73E", "U+1D73F", "U+1D740", "U+1D741", "U+1D742", "U+1D743", "U+1D744", "U+1D745",
    "U+1D746", "U+1D747", "U+1D748", "U+1D749", "U+1D74A", "U+1D74B", "U+1D74C", "U+1D74D", "U+1D74E", "U+1D750", "U+1D751", "U+1D752",
    "U+1D753", "U+1D754", "U+1D755", "U+1D756", "U+1D757", "U+1D758", "U+1D759", "U+1D75A", "U+1D75B", "U+1D75C", "U+1D75D", "U+1D75E",
    "U+1D75F", "U+1D760", "U+1D761", "U+1D762", "U+1D763", "U+1D764", "U+1D765", "U+1D766", "U+1D767", "U+1D768", "U+1D769", "U+1D76A",
    "U+1D76B", "U+1D76C", "U+1D76D", "U+1D76E", "U+1D770", "U+1D771", "U+1D772", "U+1D773", "U+1D774", "U+1D775", "U+1D776", "U+1D777",
    "U+1D778", "U+1D779", "U+1D77A", "U+1D77B", "U+1D77C", "U+1D77D", "U+1D77E", "U+1D77F", "U+1D780", "U+1D781", "U+1D782", "U+1D783",
    "U+1D784", "U+1D785", "U+1D786", "U+1D787", "U+1D788", "U+1D78A", "U+1D78B", "U+1D78C", "U+1D78D", "U+1D78E", "U+1D78F", "U+1D790",
    "U+1D791", "U+1D792", "U+1D793", "U+1D794", "U+1D795", "U+1D796", "U+1D797", "U+1D798", "U+1D799", "U+1D79A", "U+1D79B", "U+1D79C",
    "U+1D79D", "U+1D79E", "U+1D79F", "U+1D7A0", "U+1D7A1", "U+1D7A2", "U+1D7A3", "U+1D7A4", "U+1D7A5", "U+1D7A6", "U+1D7A7", "U+1D7A8",
    "U+1D7AA", "U+1D7AB", "U+1D7AC", "U+1D7AD", "U+1D7AE", "U+1D7AF", "U+1D7B0", "U+1D7B1", "U+1D7B2", "U+1D7B3", "U+1D7B4", "U+1D7B5",
    "U+1D7B6", "U+1D7B7", "U+1D7B8", "U+1D7B9", "U+1D7BA", "U+1D7BB", "U+1D7BC", "U+1D7BD", "U+1D7BE", "U+1D7BF", "U+1D7C0", "U+1D7C1",
    "U+1D7C2", "U+1D7C4", "U+1D7C5", "U+1D7C6", "U+1D7C7", "U+1D7C8", "U+1D7C9", "U+1D7CA", "U+1D7CB", "U+1DF00", "U+1DF01", "U+1DF02",
    "U+1DF03", "U+1DF04", "U+1DF05", "U+1DF06", "U+1DF07", "U+1DF08", "U+1DF09", "U+1DF0B", "U+1DF0C", "U+1DF0D", "U+1DF0E", "U+1DF0F",
    "U+1DF10", "U+1DF11", "U+1DF12", "U+1DF13", "U+1DF14", "U+1DF15", "U+1DF16", "U+1DF17", "U+1DF18", "U+1DF19", "U+1DF1A", "U+1DF1B",
    "U+1DF1C", "U+1DF1D", "U+1DF1E", "U+1E900", "U+1E901", "U+1E902", "U+1E903", "U+1E904", "U+1E905", "U+1E906", "U+1E907", "U+1E908",
    "U+1E909", "U+1E90A", "U+1E90B", "U+1E90C", "U+1E90D", "U+1E90E", "U+1E90F", "U+1E910", "U+1E911", "U+1E912", "U+1E913", "U+1E914",
    "U+1E915", "U+1E916", "U+1E917", "U+1E918", "U+1E919", "U+1E91A", "U+1E91B", "U+1E91C", "U+1E91D", "U+1E91E", "U+1E91F", "U+1E920",
    "U+1E921", "U+1E922", "U+1E923", "U+1E924", "U+1E925", "U+1E926", "U+1E927", "U+1E928", "U+1E929", "U+1E92A", "U+1E92B", "U+1E92C",
    "U+1E92D", "U+1E92E", "U+1E92F", "U+1E930", "U+1E931", "U+1E932", "U+1E933", "U+1E934", "U+1E935", "U+1E936", "U+1E937", "U+1E938",
    "U+1E939", "U+1E93A", "U+1E93B", "U+1E93C", "U+1E93D", "U+1E93E", "U+1E93F", "U+1E940", "U+1E941", "U+1E942", "U+1E943", "U+1F130",
    "U+1F131", "U+1F132", "U+1F133", "U+1F134", "U+1F135", "U+1F136", "U+1F137", "U+1F138", "U+1F139", "U+1F13A", "U+1F13B", "U+1F13C",
    "U+1F13D", "U+1F13E", "U+1F13F", "U+1F140", "U+1F141", "U+1F142", "U+1F143", "U+1F144", "U+1F145", "U+1F146", "U+1F147", "U+1F148",
    "U+1F149", "U+1F150", "U+1F151", "U+1F152", "U+1F153", "U+1F154", "U+1F155", "U+1F156", "U+1F157", "U+1F158", "U+1F159", "U+1F15A",
    "U+1F15B", "U+1F15C", "U+1F15D", "U+1F15E", "U+1F15F", "U+1F160", "U+1F161", "U+1F162", "U+1F163", "U+1F164", "U+1F165", "U+1F166",
    "U+1F167", "U+1F168", "U+1F169", "U+1F170", "U+1F171", "U+1F172", "U+1F173", "U+1F174", "U+1F175", "U+1F176", "U+1F177", "U+1F178",
    "U+1F179", "U+1F17A", "U+1F17B", "U+1F17C", "U+1F17D", "U+1F17E", "U+1F17F", "U+1F180", "U+1F181", "U+1F182", "U+1F183", "U+1F184",
    "U+1F185", "U+1F186", "U+1F187", "U+1F188", "U+1F189"
  }

\* str.lower() of one character: the small letters of UpperCase, position by
\* position.
ToLower ==
    [c \in {UpperCase[j] : j \in 1..Len(UpperCase)} |->
        LowerCase[CHOOSE j \in 1..Len(UpperCase) : UpperCase[j] = c]]

\* The capital sigma at position i of s ends a word: the nearest character
\* before it that is not case-ignorable is a cased one, and the nearest one
\* after it, if any, is not.
FinalSigma(s, i) ==
    LET before == {j \in 1..(i - 1) : s[j] \notin CaseIgnorable}
        after == {j \in (i + 1)..Len(s) : s[j] \notin CaseIgnorable}
    IN  /\ before # {}
        /\ s[CHOOSE j \in before : \A k \in before : k <= j] \in Cased
        /\ \/ after = {}
           \/ s[CHOOSE j \in after : \A k \in after : j <= k] \notin Cased

\* str.lower() of s from position i on: every capital becomes its small
\* letter, the capital sigma the final sigma at the end of a word, and the
\* capital I with a dot above (0x130) the two characters i and the combining
\* dot above.
RECURSIVE lower_from(_, _)
lower_from(s, i) ==
    IF i > Len(s) THEN <<>>
    ELSE (IF s[i] = "Σ" THEN (IF FinalSigma(s, i) THEN <<"ς">> ELSE <<"σ">>)
          ELSE IF s[i] = "U+0130" THEN <<"i", "U+0307">>
          ELSE IF s[i] \in DOMAIN ToLower THEN <<ToLower[s[i]]>>
          ELSE <<s[i]>>)
         \o lower_from(s, i + 1)

\* str.lower()
lower(s) == lower_from(s, 1)

----------------------------------------------------------------------------
(* The question catalog *)

\* The list that lines 11-32 bind to the module's name FRAUD_QUESTIONS when
\* the module is imported; the list itself is a variable of the program.
FraudQuestionsAtImport ==
    << [id |-> "payment_recipient",
        question |-> <<"Who are you making this payment to? Please provide the name of the person, organization, or company.">>,
        validation |-> "payment_recipient"],
       [id |-> "purpose_of_payment",
        question |-> <<"What is the purpose of this payment? Please describe what you are paying for (service, product, investment, etc.)">>,
        validation |-> "purpose_of_payment"],
       [id |-> "source_of_payment_link",
        question |-> <<"Where did you get the payment link or payment instructions from? Please share the source (email, website, text message, social media post, etc.)">>,
        validation |-> "source_of_payment_link"],
       [id |-> "website_verification",
        question |-> <<"Please provide the website URL or platform where you are making this payment, or describe how you are accessing the payment page.">>,
        validation |-> "website_verification"] >>

\* The answer stored for a question the user failed three times.
RETRY_PLACEHOLDER == <<"User unable to provide relevant answer after multiple attempts">>

\* The retry count at which a question is abandoned.
MAX_RETRIES == 3

\* cleanup_old_sessions keeps a session for this many seconds.
RETENTION_SECONDS == 60 * 60

SESSION_NOT_FOUND == <<"Session not found. Please refresh and start again.">>
ALREADY_COMPLETED == <<"Thank you! Your fraud assessment has been completed.">>
ALL_ANSWERED == <<"Thank you for answering all the questions. Let me analyze this information for potential fraud indicators.">>
ANALYSIS_FALLBACK == <<"RISK LEVEL: UNKNOWN\nANALYSIS: Unable to complete fraud analysis due to technical issues. Please verify payment details independently and consult with your bank if you have concerns.">>

----------------------------------------------------------------------------
(* Response models (app/models/schemas.py) *)

ChatStartResponse(success, message, session_id) ==
    [success |-> success, message |-> message, session_id |-> session_id]

\* completed defaults to False and fraud_analysis to None.
ChatResponseResponse(success, message, completed, fraud_analysis) ==
    [success |-> success, message |-> message,
     completed |-> completed, fraud_analysis |-> fraud_analysis]

ConversationSession(session_id, start_time) ==
    [session_id |-> session_id,
     current_question_index |-> 0,
     answers |-> <<>>,
     retry_count |-> 0,
     completed |-> FALSE,
     start_time |-> start_time]

----------------------------------------------------------------------------
(* Helpers of the engine.  Each returns what the method returns together    *)
(* with the external calls it made.                                         *)

\* The external call was not made.
NotCalled == [kind |-> "not_called"]

\* _get_question_context
_get_question_context(question) ==
    CASE question.id = "payment_recipient" -> "who you are paying"
      [] question.id = "purpose_of_payment" -> "what you are paying for"
      [] question.id = "source_of_payment_link" -> "where you got the payment link from"
      [] question.id = "website_verification" -> "the website or platform you are using"
      [] OTHER -> "this question"

\* The re-prompt f-string embedding current_question.id in place of the
\* context phrase.
RetryMessage_EmbedsId(question) ==
    <<"I need a more specific answer about ", question.id,
      ". Could you please provide more details?">>

\* The re-prompt f-string of process_response.
RetryMessage(question) ==
    <<"I need a more specific answer about ", _get_question_context(question),
      ". Could you please provide more details?">>

\* The length pre-filter measuring the message as submitted, without strip.
PreFilterRejects_Unstripped(user_message) ==
    user_message = <<>> \/ Len(user_message) < 3

\* The length pre-filter of _validate_response.
PreFilterRejects(user_message) ==
    user_message = <<>> \/ Len(strip(user_message)) < 3

\* _validate_response rejecting the answer when the call fails.
_validate_response_FailsClosed(user_message, question, v) ==
    IF PreFilterRejects(user_message)
    THEN [valid |-> FALSE, call |-> NotCalled]
    ELSE [valid |-> IF v.kind = "reply"
                    THEN lower(strip(v.content)) = <<"t", "r", "u", "e">>
                    ELSE FALSE,
          call |-> v]

\* _validate_response comparing the verdict with 'false' instead of 'true'.
_validate_response_RejectsOnlyFalse(user_message, question, v) ==
    IF PreFilterRejects(user_message)
    THEN [valid |-> FALSE, call |-> NotCalled]
    ELSE [valid |-> IF v.kind = "reply"
                    THEN lower(strip(v.content)) # <<"f", "a", "l", "s", "e">>
                    ELSE TRUE,
          call |-> v]

\* _validate_response; v is what the chat-completion call does if it is made.
_validate_response(user_message, question, v) ==
    IF PreFilterRejects(user_message)
    THEN [valid |-> FALSE, call |-> NotCalled]
    ELSE [valid |-> IF v.kind = "reply"
                    THEN lower(strip(v.content)) = <<"t", "r", "u", "e">>
                    ELSE TRUE,
          call |-> v]

\* dict.get(key, default)
DictGet(d, k, default) == IF k \in DOMAIN d THEN d[k] ELSE default

\* The four answers as the prompt of _perform_fraud_analysis renders them
\* (lines 226-229), in the order of its lines.
PaymentDetails(answers) ==
    <<DictGet(answers, "payment_recipient", <<"Not provided">>),
      DictGet(answers, "purpose_of_payment", <<"Not provided">>),
      DictGet(answers, "source_of_payment_link", <<"Not provided">>),
      DictGet(answers, "website_verification", <<"Not provided">>)>>

\* _perform_fraud_analysis whose except clause returns an empty assessment.
_perform_fraud_analysis_EmptyFallback(answers, a) ==
    IF a.kind = "reply" THEN strip(a.content) ELSE <<>>

\* _perform_fraud_analysis; a is what the chat-completion call does.
_perform_fraud_analysis(answers, a) ==
    IF a.kind = "reply" THEN strip(a.content) ELSE ANALYSIS_FALLBACK

\* _move_to_next_question keeping the assessment in the session
\* (session.answers['fraud_analysis'] = fraud_analysis after line 146).
_move_to_next_question_KeepsAnalysis(session, a) ==
    LET moved == [session EXCEPT !.current_question_index = @ + 1] IN
    IF moved.current_question_index >= Len(FRAUD_QUESTIONS)
    THEN LET done == [moved EXCEPT !.completed = TRUE]
             fraud_analysis == _perform_fraud_analysis(done.answers, a)
         IN  [session |-> [done EXCEPT
                              !.answers = DictSet(@, "fraud_analysis", fraud_analysis)],
              result |-> ChatResponseResponse(TRUE, ALL_ANSWERED, TRUE,
                            Some(fraud_analysis)),
              analyzer |-> a,
              analyzer_input |-> Some(done.answers)]
    ELSE [session |-> moved,
          result |-> ChatResponseResponse(TRUE,
                        FRAUD_QUESTIONS[moved.current_question_index + 1].question,
                        FALSE, None),
          analyzer |-> NotCalled,
          analyzer_input |-> None]

\* _move_to_next_question reading next_question before line 141 moves the
\* index: it asks the question just answered again.
_move_to_next_question_AsksAnsweredQuestion(session, a) ==
    LET moved == [session EXCEPT !.current_question_index = @ + 1] IN
    IF moved.current_question_index >= Len(FRAUD_QUESTIONS)
    THEN LET done == [moved EXCEPT !.completed = TRUE] IN
         [session |-> done,
          result |-> ChatResponseResponse(TRUE, ALL_ANSWERED, TRUE,
                        Some(_perform_fraud_analysis(done.answers, a))),
          analyzer |-> a,
          analyzer_input |-> Some(done.answers)]
    ELSE [session |-> moved,
          result |-> ChatResponseResponse(TRUE,
                        FRAUD_QUESTIONS[session.current_question_index + 1].question,
                        FALSE, None),
          analyzer |-> NotCalled,
          analyzer_input |-> None]

\* _move_to_next_question with current_question_index += 2 at line 141.
_move_to_next_question_SkipsOne(session, a) ==
    LET moved == [session EXCEPT !.current_question_index = @ + 2] IN
    IF moved.current_question_index >= Len(FRAUD_QUESTIONS)
    THEN LET done == [moved EXCEPT !.completed = TRUE] IN
         [session |-> done,
          result |-> ChatResponseResponse(TRUE, ALL_ANSWERED, TRUE,
                        Some(_perform_fraud_analysis(done.answers, a))),
          analyzer |-> a,
          analyzer_input |-> Some(done.answers)]
    ELSE [session |-> moved,
          result |-> ChatResponseResponse(TRUE,
                        FRAUD_QUESTIONS[moved.current_question_index + 1].question,
                        FALSE, None),
          analyzer |-> NotCalled,
          analyzer_input |-> None]

\* _move_to_next_question without line 145: completed is never set.
_move_to_next_question_ForgetsCompleted(session, a) ==
    LET moved == [session EXCEPT !.current_question_index = @ + 1] IN
    IF moved.current_question_index >= Len(FRAUD_QUESTIONS)
    THEN [session |-> moved,
          result |-> ChatResponseResponse(TRUE, ALL_ANSWERED, TRUE,
                        Some(_perform_fraud_analysis(moved.answers, a))),
          analyzer |-> a,
          analyzer_input |-> Some(moved.answers)]
    ELSE [session |-> moved,
          result |-> ChatResponseResponse(TRUE,
                        FRAUD_QUESTIONS[moved.current_question_index + 1].question,
                        FALSE, None),
          analyzer |-> NotCalled,
          analyzer_input |-> None]

\* _move_to_next_question: the session after it, its result, the analyzer call.
_move_to_next_question(session, a) ==
    LET moved == [session EXCEPT !.current_question_index = @ + 1] IN
    IF moved.current_question_index >= Len(FRAUD_QUESTIONS)
    THEN LET done == [moved EXCEPT !.completed = TRUE] IN
         [session |-> done,
          result |-> ChatResponseResponse(TRUE, ALL_ANSWERED, TRUE,
                        Some(_perform_fraud_analysis(done.answers, a))),
          analyzer |-> a,
          analyzer_input |-> Some(done.answers)]
    ELSE [session |-> moved,
          result |-> ChatResponseResponse(TRUE,
                        FRAUD_QUESTIONS[moved.current_question_index + 1].question,
                        FALSE, None),
          analyzer |-> NotCalled,
          analyzer_input |-> None]

----------------------------------------------------------------------------
(* Observation: the last operation, and the runs of invalid answers *)

\* before: the session stored under session_id when the operation began.
\* The result of cleanup_old_sessions, which returns nothing, records its
\* sessions_to_remove.
Last(op, session_id, before, user_message, validator, analyzer, analyzer_input, result) ==
    [op |-> op, session_id |-> session_id, before |-> before,
     user_message |-> user_message,
     validator |-> validator, analyzer |-> analyzer,
     analyzer_input |-> analyzer_input, result |-> result]

NoResult == [success |-> TRUE]

Stored(session_id) ==
    IF session_id \in DOMAIN sessions THEN Some(sessions[session_id]) ELSE None

\* n answers in a row were judged invalid; the run began at question `index`
\* (counted from 0) with retry_count `retry`.
NoStreak == [n |-> 0, index |-> 0, retry |-> 0]

StreakAfter(run, session, valid) ==
    IF valid THEN NoStreak
    ELSE IF run.n = 0 \/ run.n >= 3
         THEN [n |-> 1, index |-> session.current_question_index,
               retry |-> session.retry_count]
         ELSE [run EXCEPT !.n = @ + 1]

Init ==
    /\ sessions = <<>>
    /\ now = 0
    /\ ticks = 0
    /\ last = Last("init", "", None, <<>>, NotCalled, NotCalled, None, NoResult)
    /\ streak = <<>>
    /\ analyses = <<>>
    /\ evicted = {}
    /\ inflight = None
    /\ threads = <<>>
    /\ FRAUD_QUESTIONS = FraudQuestionsAtImport
    /\ asked = <<>>
    /\ flask = [sessions |-> <<>>, response |-> [status |-> 0, body |-> [success |-> TRUE]],
                handlers |-> <<>>, detached |-> <<>>, overlaps |-> 0]
    /\ deps = [_openai_client |-> None, _conversation_engine |-> None, clients |-> 0,
               engines |-> <<>>, started |-> {}, overlaps |-> 0]
    /\ entries = [slots |-> 8, keys |-> <<>>]
    /\ detached = <<>>
    /\ taken = 0

----------------------------------------------------------------------------
(* Operations *)

\* start_session answering with FRAUD_QUESTIONS[1], the second question.
start_session_AsksSecondQuestion(session_id) ==
    /\ sessions' = DictSet(sessions, session_id, ConversationSession(session_id, now))
    /\ last' = Last("start_session", session_id, Stored(session_id), <<>>,
                    NotCalled, NotCalled, None,
                    ChatStartResponse(TRUE, FRAUD_QUESTIONS[2].question, session_id))
    /\ streak' = DictSet(streak, session_id, NoStreak)
    /\ analyses' = DictSet(analyses, session_id, 0)
    /\ evicted' = evicted \ {session_id}
    /\ UNCHANGED <<now, ticks>>
    /\ UNCHANGED FRAUD_QUESTIONS

\* start_session as sessions.setdefault: a stored session is kept.
start_session_KeepsExisting(session_id) ==
    /\ sessions' = IF session_id \in DOMAIN sessions THEN sessions
                   ELSE DictSet(sessions, session_id, ConversationSession(session_id, now))
    /\ last' = Last("start_session", session_id, Stored(session_id), <<>>,
                    NotCalled, NotCalled, None,
                    ChatStartResponse(TRUE, FRAUD_QUESTIONS[1].question, session_id))
    /\ streak' = IF session_id \in DOMAIN sessions THEN streak
                 ELSE DictSet(streak, session_id, NoStreak)
    /\ analyses' = IF session_id \in DOMAIN sessions THEN analyses
                   ELSE DictSet(analyses, session_id, 0)
    /\ evicted' = evicted \ {session_id}
    /\ UNCHANGED <<now, ticks>>
    /\ UNCHANGED FRAUD_QUESTIONS

\* start_session building the store anew (self.sessions = {session_id: ...}
\* at line 72).
start_session_ClearsStore(session_id) ==
    /\ sessions' = (session_id :> ConversationSession(session_id, now))
    /\ last' = Last("start_session", session_id, Stored(session_id), <<>>,
                    NotCalled, NotCalled, None,
                    ChatStartResponse(TRUE, FRAUD_QUESTIONS[1].question, session_id))
    /\ streak' = DictSet(streak, session_id, NoStreak)
    /\ analyses' = DictSet(analyses, session_id, 0)
    /\ evicted' = evicted \ {session_id}
    /\ UNCHANGED <<now, ticks>>
    /\ UNCHANGED FRAUD_QUESTIONS

\* start_session taking the first question with FRAUD_QUESTIONS.pop(0).
start_session_PopsQuestion(session_id) ==
    /\ sessions' = DictSet(sessions, session_id, ConversationSession(session_id, now))
    /\ last' = Last("start_session", session_id, Stored(session_id), <<>>,
                    NotCalled, NotCalled, None,
                    ChatStartResponse(TRUE, FRAUD_QUESTIONS[1].question, session_id))
    /\ streak' = DictSet(streak, session_id, NoStreak)
    /\ analyses' = DictSet(analyses, session_id, 0)
    /\ evicted' = evicted \ {session_id}
    /\ FRAUD_QUESTIONS' = Tail(FRAUD_QUESTIONS)
    /\ UNCHANGED <<now, ticks>>

\* ConversationEngine.start_session
start_session(session_id) ==
    /\ sessions' = DictSet(sessions, session_id, ConversationSession(session_id, now))
    /\ last' = Last("start_session", session_id, Stored(session_id), <<>>,
                    NotCalled, NotCalled, None,
                    ChatStartResponse(TRUE, FRAUD_QUESTIONS[1].question, session_id))
    /\ streak' = DictSet(streak, session_id, NoStreak)
    /\ analyses' = DictSet(analyses, session_id, 0)
    /\ evicted' = evicted \ {session_id}
    /\ UNCHANGED <<now, ticks>>
    /\ UNCHANGED FRAUD_QUESTIONS

\* process_response testing retry_count > 3 at line 114.
AnswerQuestion_GivesUpLate(session, user_message, v, a) ==
    LET current_question == FRAUD_QUESTIONS[session.current_question_index + 1]
        check == _validate_response(user_message, current_question, v)
    IN  IF ~check.valid
        THEN LET counted == [session EXCEPT !.retry_count = @ + 1] IN
             IF counted.retry_count > MAX_RETRIES
             THEN LET given_up ==
                          [counted EXCEPT
                              !.retry_count = 0,
                              !.answers = DictSet(@, current_question.id, RETRY_PLACEHOLDER)]
                      next == _move_to_next_question(given_up, a)
                  IN  [session |-> next.session, result |-> next.result,
                       valid |-> FALSE,
                       validator |-> check.call, analyzer |-> next.analyzer,
                       analyzer_input |-> next.analyzer_input]
             ELSE [session |-> counted,
                   result |-> ChatResponseResponse(TRUE, RetryMessage(current_question),
                                                   FALSE, None),
                   valid |-> FALSE,
                   validator |-> check.call, analyzer |-> NotCalled,
                   analyzer_input |-> None]
        ELSE LET stored ==
                     [session EXCEPT
                         !.answers = DictSet(@, current_question.id, user_message),
                         !.retry_count = 0]
                 next == _move_to_next_question(stored, a)
             IN  [session |-> next.session, result |-> next.result,
                  valid |-> TRUE,
                  validator |-> check.call, analyzer |-> next.analyzer,
                  analyzer_input |-> next.analyzer_input]

\* process_response testing retry_count >= 2 at line 114.
AnswerQuestion_GivesUpEarly(session, user_message, v, a) ==
    LET current_question == FRAUD_QUESTIONS[session.current_question_index + 1]
        check == _validate_response(user_message, current_question, v)
    IN  IF ~check.valid
        THEN LET counted == [session EXCEPT !.retry_count = @ + 1] IN
             IF counted.retry_count >= MAX_RETRIES - 1
             THEN LET given_up ==
                          [counted EXCEPT
                              !.retry_count = 0,
                              !.answers = DictSet(@, current_question.id, RETRY_PLACEHOLDER)]
                      next == _move_to_next_question(given_up, a)
                  IN  [session |-> next.session, result |-> next.result,
                       valid |-> FALSE,
                       validator |-> check.call, analyzer |-> next.analyzer,
                       analyzer_input |-> next.analyzer_input]
             ELSE [session |-> counted,
                   result |-> ChatResponseResponse(TRUE, RetryMessage(current_question),
                                                   FALSE, None),
                   valid |-> FALSE,
                   validator |-> check.call, analyzer |-> NotCalled,
                   analyzer_input |-> None]
        ELSE LET stored ==
                     [session EXCEPT
                         !.answers = DictSet(@, current_question.id, user_message),
                         !.retry_count = 0]
                 next == _move_to_next_question(stored, a)
             IN  [session |-> next.session, result |-> next.result,
                  valid |-> TRUE,
                  validator |-> check.call, analyzer |-> next.analyzer,
                  analyzer_input |-> next.analyzer_input]

\* process_response storing user_message.strip() at line 126.
AnswerQuestion_StoresStripped(session, user_message, v, a) ==
    LET current_question == FRAUD_QUESTIONS[session.current_question_index + 1]
        check == _validate_response(user_message, current_question, v)
    IN  IF ~check.valid
        THEN LET counted == [session EXCEPT !.retry_count = @ + 1] IN
             IF counted.retry_count >= MAX_RETRIES
             THEN LET given_up ==
                          [counted EXCEPT
                              !.retry_count = 0,
                              !.answers = DictSet(@, current_question.id, RETRY_PLACEHOLDER)]
                      next == _move_to_next_question(given_up, a)
                  IN  [session |-> next.session, result |-> next.result,
                       valid |-> FALSE,
                       validator |-> check.call, analyzer |-> next.analyzer,
                       analyzer_input |-> next.analyzer_input]
             ELSE [session |-> counted,
                   result |-> ChatResponseResponse(TRUE, RetryMessage(current_question),
                                                   FALSE, None),
                   valid |-> FALSE,
                   validator |-> check.call, analyzer |-> NotCalled,
                   analyzer_input |-> None]
        ELSE LET stored ==
                     [session EXCEPT
                         !.answers = DictSet(@, current_question.id, strip(user_message)),
                         !.retry_count = 0]
                 next == _move_to_next_question(stored, a)
             IN  [session |-> next.session, result |-> next.result,
                  valid |-> TRUE,
                  validator |-> check.call, analyzer |-> next.analyzer,
                  analyzer_input |-> next.analyzer_input]

\* process_response without the return of line 118: after giving up it goes on to
\* lines 126-129.
AnswerQuestion_FallsThrough(session, user_message, v, a) ==
    LET current_question == FRAUD_QUESTIONS[session.current_question_index + 1]
        check == _validate_response(user_message, current_question, v)
    IN  IF ~check.valid
        THEN LET counted == [session EXCEPT !.retry_count = @ + 1] IN
             IF counted.retry_count >= MAX_RETRIES
             THEN LET given_up ==
                          [counted EXCEPT
                              !.retry_count = 0,
                              !.answers = DictSet(@, current_question.id, RETRY_PLACEHOLDER)]
                      first == _move_to_next_question(given_up, a)
                      stored ==
                          [first.session EXCEPT
                              !.answers = DictSet(@, current_question.id, user_message),
                              !.retry_count = 0]
                      next == _move_to_next_question(stored, a)
                  IN  [session |-> next.session, result |-> next.result,
                       valid |-> FALSE,
                       validator |-> check.call, analyzer |-> next.analyzer,
                       analyzer_input |-> next.analyzer_input]
             ELSE [session |-> counted,
                   result |-> ChatResponseResponse(TRUE, RetryMessage(current_question),
                                                   FALSE, None),
                   valid |-> FALSE,
                   validator |-> check.call, analyzer |-> NotCalled,
                   analyzer_input |-> None]
        ELSE LET stored ==
                     [session EXCEPT
                         !.answers = DictSet(@, current_question.id, user_message),
                         !.retry_count = 0]
                 next == _move_to_next_question(stored, a)
             IN  [session |-> next.session, result |-> next.result,
                  valid |-> TRUE,
                  validator |-> check.call, analyzer |-> next.analyzer,
                  analyzer_input |-> next.analyzer_input]

\* AnswerQuestion without line 116: giving up leaves retry_count at 3.
AnswerQuestion_KeepsCount(session, user_message, v, a) ==
    LET current_question == FRAUD_QUESTIONS[session.current_question_index + 1]
        check == _validate_response(user_message, current_question, v)
    IN  IF ~check.valid
        THEN LET counted == [session EXCEPT !.retry_count = @ + 1] IN
             IF counted.retry_count >= MAX_RETRIES
             THEN LET given_up ==
                          [counted EXCEPT
                              !.answers = DictSet(@, current_question.id, RETRY_PLACEHOLDER)]
                      next == _move_to_next_question(given_up, a)
                  IN  [session |-> next.session, result |-> next.result,
                       valid |-> FALSE,
                       validator |-> check.call, analyzer |-> next.analyzer,
                       analyzer_input |-> next.analyzer_input]
             ELSE [session |-> counted,
                   result |-> ChatResponseResponse(TRUE, RetryMessage(current_question),
                                                   FALSE, None),
                   valid |-> FALSE,
                   validator |-> check.call, analyzer |-> NotCalled,
                   analyzer_input |-> None]
        ELSE LET stored ==
                     [session EXCEPT
                         !.answers = DictSet(@, current_question.id, user_message),
                         !.retry_count = 0]
                 next == _move_to_next_question(stored, a)
             IN  [session |-> next.session, result |-> next.result,
                  valid |-> TRUE,
                  validator |-> check.call, analyzer |-> next.analyzer,
                  analyzer_input |-> next.analyzer_input]

\* AnswerQuestion without line 117: giving up stores no answer.
AnswerQuestion_SkipsPlaceholder(session, user_message, v, a) ==
    LET current_question == FRAUD_QUESTIONS[session.current_question_index + 1]
        check == _validate_response(user_message, current_question, v)
    IN  IF ~check.valid
        THEN LET counted == [session EXCEPT !.retry_count = @ + 1] IN
             IF counted.retry_count >= MAX_RETRIES
             THEN LET given_up ==
                          [counted EXCEPT
                              !.retry_count = 0]
                      next == _move_to_next_question(given_up, a)
                  IN  [session |-> next.session, result |-> next.result,
                       valid |-> FALSE,
                       validator |-> check.call, analyzer |-> next.analyzer,
                       analyzer_input |-> next.analyzer_input]
             ELSE [session |-> counted,
                   result |-> ChatResponseResponse(TRUE, RetryMessage(current_question),
                                                   FALSE, None),
                   valid |-> FALSE,
                   validator |-> check.call, analyzer |-> NotCalled,
                   analyzer_input |-> None]
        ELSE LET stored ==
                     [session EXCEPT
                         !.answers = DictSet(@, current_question.id, user_message),
                         !.retry_count = 0]
                 next == _move_to_next_question(stored, a)
             IN  [session |-> next.session, result |-> next.result,
                  valid |-> TRUE,
                  validator |-> check.call, analyzer |-> next.analyzer,
                  analyzer_input |-> next.analyzer_input]

\* AnswerQuestion without line 127: a valid answer leaves retry_count as it was.
AnswerQuestion_KeepsRetriesOnValid(session, user_message, v, a) ==
    LET current_question == FRAUD_QUESTIONS[session.current_question_index + 1]
        check == _validate_response(user_message, current_question, v)
    IN  IF ~check.valid
        THEN LET counted == [session EXCEPT !.retry_count = @ + 1] IN
             IF counted.retry_count >= MAX_RETRIES
             THEN LET given_up ==
                          [counted EXCEPT
                              !.retry_count = 0,
                              !.answers = DictSet(@, current_question.id, RETRY_PLACEHOLDER)]
                      next == _move_to_next_question(given_up, a)
                  IN  [session |-> next.session, result |-> next.result,
                       valid |-> FALSE,
                       validator |-> check.call, analyzer |-> next.analyzer,
                       analyzer_input |-> next.analyzer_input]
             ELSE [session |-> counted,
                   result |-> ChatResponseResponse(TRUE, RetryMessage(current_question),
                                                   FALSE, None),
                   valid |-> FALSE,
                   validator |-> check.call, analyzer |-> NotCalled,
                   analyzer_input |-> None]
        ELSE LET stored ==
                     [session EXCEPT
                         !.answers = DictSet(@, current_question.id, user_message)]
                 next == _move_to_next_question(stored, a)
             IN  [session |-> next.session, result |-> next.result,
                  valid |-> TRUE,
                  validator |-> check.call, analyzer |-> next.analyzer,
                  analyzer_input |-> next.analyzer_input]

\* AnswerQuestion without lines 114-118: an invalid answer is always asked
\* again.
AnswerQuestion_NeverGivesUp(session, user_message, v, a) ==
    LET current_question == FRAUD_QUESTIONS[session.current_question_index + 1]
        check == _validate_response(user_message, current_question, v)
    IN  IF ~check.valid
        THEN LET counted == [session EXCEPT !.retry_count = @ + 1] IN
             [session |-> counted,
              result |-> ChatResponseResponse(TRUE, RetryMessage(current_question),
                                              FALSE, None),
              valid |-> FALSE,
              validator |-> check.call, analyzer |-> NotCalled,
              analyzer_input |-> None]
        ELSE LET stored ==
                     [session EXCEPT
                         !.answers = DictSet(@, current_question.id, user_message),
                         !.retry_count = 0]
                 next == _move_to_next_question(stored, a)
             IN  [session |-> next.session, result |-> next.result,
                  valid |-> TRUE,
                  validator |-> check.call, analyzer |-> next.analyzer,
                  analyzer_input |-> next.analyzer_input]

\* AnswerQuestion storing a valid answer under the key 'answer'
\* (session.answers['answer'] = user_message at line 126).
AnswerQuestion_StoresUnderFixedKey(session, user_message, v, a) ==
    LET current_question == FRAUD_QUESTIONS[session.current_question_index + 1]
        check == _validate_response(user_message, current_question, v)
    IN  IF ~check.valid
        THEN LET counted == [session EXCEPT !.retry_count = @ + 1] IN
             IF counted.retry_count >= MAX_RETRIES
             THEN LET given_up ==
                          [counted EXCEPT
                              !.retry_count = 0,
                              !.answers = DictSet(@, current_question.id, RETRY_PLACEHOLDER)]
                      next == _move_to_next_question(given_up, a)
                  IN  [session |-> next.session, result |-> next.result,
                       valid |-> FALSE,
                       validator |-> check.call, analyzer |-> next.analyzer,
                       analyzer_input |-> next.analyzer_input]
             ELSE [session |-> counted,
                   result |-> ChatResponseResponse(TRUE, RetryMessage(current_question),
                                                   FALSE, None),
                   valid |-> FALSE,
                   validator |-> check.call, analyzer |-> NotCalled,
                   analyzer_input |-> None]
        ELSE LET stored ==
                     [session EXCEPT
                         !.answers = DictSet(@, "answer", user_message),
                         !.retry_count = 0]
                 next == _move_to_next_question(stored, a)
             IN  [session |-> next.session, result |-> next.result,
                  valid |-> TRUE,
                  validator |-> check.call, analyzer |-> next.analyzer,
                  analyzer_input |-> next.analyzer_input]

\* AnswerQuestion storing a valid answer under the id of the first question
\* (FRAUD_QUESTIONS[0]['id'] at line 126).
AnswerQuestion_StoresUnderFirst(session, user_message, v, a) ==
    LET current_question == FRAUD_QUESTIONS[session.current_question_index + 1]
        check == _validate_response(user_message, current_question, v)
    IN  IF ~check.valid
        THEN LET counted == [session EXCEPT !.retry_count = @ + 1] IN
             IF counted.retry_count >= MAX_RETRIES
             THEN LET given_up ==
                          [counted EXCEPT
                              !.retry_count = 0,
                              !.answers = DictSet(@, current_question.id, RETRY_PLACEHOLDER)]
                      next == _move_to_next_question(given_up, a)
                  IN  [session |-> next.session, result |-> next.result,
                       valid |-> FALSE,
                       validator |-> check.call, analyzer |-> next.analyzer,
                       analyzer_input |-> next.analyzer_input]
             ELSE [session |-> counted,
                   result |-> ChatResponseResponse(TRUE, RetryMessage(current_question),
                                                   FALSE, None),
                   valid |-> FALSE,
                   validator |-> check.call, analyzer |-> NotCalled,
                   analyzer_input |-> None]
        ELSE LET stored ==
                     [session EXCEPT
                         !.answers = DictSet(@, FRAUD_QUESTIONS[1].id, user_message),
                         !.retry_count = 0]
                 next == _move_to_next_question(stored, a)
             IN  [session |-> next.session, result |-> next.result,
                  valid |-> TRUE,
                  validator |-> check.call, analyzer |-> next.analyzer,
                  analyzer_input |-> next.analyzer_input]

\* process_response from the validation on (lines 106-129): the session it
\* leaves, its result, the verdict and the external calls.
AnswerQuestion(session, user_message, v, a) ==
    LET current_question == FRAUD_QUESTIONS[session.current_question_index + 1]
        check == _validate_response(user_message, current_question, v)
    IN  IF ~check.valid
        THEN LET counted == [session EXCEPT !.retry_count = @ + 1] IN
             IF counted.retry_count >= MAX_RETRIES
             THEN LET given_up ==
                          [counted EXCEPT
                              !.retry_count = 0,
                              !.answers = DictSet(@, current_question.id, RETRY_PLACEHOLDER)]
                      next == _move_to_next_question(given_up, a)
                  IN  [session |-> next.session, result |-> next.result,
                       valid |-> FALSE,
                       validator |-> check.call, analyzer |-> next.analyzer,
                       analyzer_input |-> next.analyzer_input]
             ELSE [session |-> counted,
                   result |-> ChatResponseResponse(TRUE, RetryMessage(current_question),
                                                   FALSE, None),
                   valid |-> FALSE,
                   validator |-> check.call, analyzer |-> NotCalled,
                   analyzer_input |-> None]
        ELSE LET stored ==
                     [session EXCEPT
                         !.answers = DictSet(@, current_question.id, user_message),
                         !.retry_count = 0]
                 next == _move_to_next_question(stored, a)
             IN  [session |-> next.session, result |-> next.result,
                  valid |-> TRUE,
                  validator |-> check.call, analyzer |-> next.analyzer,
                  analyzer_input |-> next.analyzer_input]

\* process_response without completed=True at line 103.
process_response_AckNotCompleted(session_id, user_message, v, a) ==
    /\ IF session_id \notin DOMAIN sessions
       THEN /\ sessions' = sessions
            /\ last' = Last("process_response", session_id, None, user_message,
                            NotCalled, NotCalled, None,
                            ChatResponseResponse(FALSE, SESSION_NOT_FOUND, FALSE, None))
            /\ streak' = streak
            /\ analyses' = analyses
       ELSE IF sessions[session_id].completed
       THEN /\ sessions' = sessions
            /\ last' = Last("process_response", session_id, Stored(session_id),
                            user_message, NotCalled, NotCalled, None,
                            ChatResponseResponse(TRUE, ALREADY_COMPLETED, FALSE, None))
            /\ streak' = streak
            /\ analyses' = analyses
       ELSE LET out == AnswerQuestion(sessions[session_id], user_message, v, a) IN
            /\ sessions' = [sessions EXCEPT ![session_id] = out.session]
            /\ last' = Last("process_response", session_id, Stored(session_id),
                            user_message, out.validator, out.analyzer,
                            out.analyzer_input, out.result)
            /\ streak' = [streak EXCEPT ![session_id] =
                             StreakAfter(@, sessions[session_id], out.valid)]
            /\ analyses' = [analyses EXCEPT ![session_id] =
                               IF out.analyzer = NotCalled THEN @ ELSE @ + 1]
    /\ UNCHANGED <<now, ticks, evicted>>
    /\ UNCHANGED FRAUD_QUESTIONS

\* process_response over a defaultdict: an unknown id gets a new session.
process_response_CreatesSession(session_id, user_message, v, a) ==
    /\ IF session_id \notin DOMAIN sessions
       THEN /\ sessions' = DictSet(sessions, session_id,
                                    ConversationSession(session_id, now))
            /\ last' = Last("process_response", session_id, None, user_message,
                            NotCalled, NotCalled, None,
                            ChatResponseResponse(FALSE, SESSION_NOT_FOUND, FALSE, None))
            /\ streak' = DictSet(streak, session_id, NoStreak)
            /\ analyses' = DictSet(analyses, session_id, 0)
       ELSE IF sessions[session_id].completed
       THEN /\ sessions' = sessions
            /\ last' = Last("process_response", session_id, Stored(session_id),
                            user_message, NotCalled, NotCalled, None,
                            ChatResponseResponse(TRUE, ALREADY_COMPLETED, TRUE, None))
            /\ streak' = streak
            /\ analyses' = analyses
       ELSE LET out == AnswerQuestion(sessions[session_id], user_message, v, a) IN
            /\ sessions' = [sessions EXCEPT ![session_id] = out.session]
            /\ last' = Last("process_response", session_id, Stored(session_id),
                            user_message, out.validator, out.analyzer,
                            out.analyzer_input, out.result)
            /\ streak' = [streak EXCEPT ![session_id] =
                             StreakAfter(@, sessions[session_id], out.valid)]
            /\ analyses' = [analyses EXCEPT ![session_id] =
                               IF out.analyzer = NotCalled THEN @ ELSE @ + 1]
    /\ UNCHANGED <<now, ticks, evicted>>
    /\ UNCHANGED FRAUD_QUESTIONS

\* process_response renewing the session's start_time on every answer
\* (session.start_time = time.time() after line 106).
process_response_RenewsStartTime(session_id, user_message, v, a) ==
    /\ IF session_id \notin DOMAIN sessions
       THEN /\ sessions' = sessions
            /\ last' = Last("process_response", session_id, None, user_message,
                            NotCalled, NotCalled, None,
                            ChatResponseResponse(FALSE, SESSION_NOT_FOUND, FALSE, None))
            /\ streak' = streak
            /\ analyses' = analyses
       ELSE IF sessions[session_id].completed
       THEN /\ sessions' = sessions
            /\ last' = Last("process_response", session_id, Stored(session_id),
                            user_message, NotCalled, NotCalled, None,
                            ChatResponseResponse(TRUE, ALREADY_COMPLETED, TRUE, None))
            /\ streak' = streak
            /\ analyses' = analyses
       ELSE LET out == AnswerQuestion(sessions[session_id], user_message, v, a) IN
            /\ sessions' = [sessions EXCEPT ![session_id] =
                                [out.session EXCEPT !.start_time = now]]
            /\ last' = Last("process_response", session_id, Stored(session_id),
                            user_message, out.validator, out.analyzer,
                            out.analyzer_input, out.result)
            /\ streak' = [streak EXCEPT ![session_id] =
                             StreakAfter(@, sessions[session_id], out.valid)]
            /\ analyses' = [analyses EXCEPT ![session_id] =
                               IF out.analyzer = NotCalled THEN @ ELSE @ + 1]
    /\ UNCHANGED <<now, ticks, evicted>>
    /\ UNCHANGED FRAUD_QUESTIONS

\* process_response running the analysis again for a completed session
\* (self._perform_fraud_analysis(session.answers) in the block of lines 98-104).
process_response_AnalyzesAgain(session_id, user_message, v, a) ==
    /\ IF session_id \notin DOMAIN sessions
       THEN /\ sessions' = sessions
            /\ last' = Last("process_response", session_id, None, user_message,
                            NotCalled, NotCalled, None,
                            ChatResponseResponse(FALSE, SESSION_NOT_FOUND, FALSE, None))
            /\ streak' = streak
            /\ analyses' = analyses
       ELSE IF sessions[session_id].completed
       THEN /\ sessions' = sessions
            /\ last' = Last("process_response", session_id, Stored(session_id),
                            user_message, NotCalled, [kind |-> "raise"],
                            Some(sessions[session_id].answers),
                            ChatResponseResponse(TRUE, ALREADY_COMPLETED, TRUE, None))
            /\ streak' = streak
            /\ analyses' = [analyses EXCEPT ![session_id] = @ + 1]
       ELSE LET out == AnswerQuestion(sessions[session_id], user_message, v, a) IN
            /\ sessions' = [sessions EXCEPT ![session_id] = out.session]
            /\ last' = Last("process_response", session_id, Stored(session_id),
                            user_message, out.validator, out.analyzer,
                            out.analyzer_input, out.result)
            /\ streak' = [streak EXCEPT ![session_id] =
                             StreakAfter(@, sessions[session_id], out.valid)]
            /\ analyses' = [analyses EXCEPT ![session_id] =
                               IF out.analyzer = NotCalled THEN @ ELSE @ + 1]
    /\ UNCHANGED <<now, ticks, evicted>>
    /\ UNCHANGED FRAUD_QUESTIONS

\* ConversationEngine.process_response
process_response(session_id, user_message, v, a) ==
    /\ IF session_id \notin DOMAIN sessions
       THEN /\ sessions' = sessions
            /\ last' = Last("process_response", session_id, None, user_message,
                            NotCalled, NotCalled, None,
                            ChatResponseResponse(FALSE, SESSION_NOT_FOUND, FALSE, None))
            /\ streak' = streak
            /\ analyses' = analyses
       ELSE IF sessions[session_id].completed
       THEN /\ sessions' = sessions
            /\ last' = Last("process_response", session_id, Stored(session_id),
                            user_message, NotCalled, NotCalled, None,
                            ChatResponseResponse(TRUE, ALREADY_COMPLETED, TRUE, None))
            /\ streak' = streak
            /\ analyses' = analyses
       ELSE LET out == AnswerQuestion(sessions[session_id], user_message, v, a) IN
            /\ sessions' = [sessions EXCEPT ![session_id] = out.session]
            /\ last' = Last("process_response", session_id, Stored(session_id),
                            user_message, out.validator, out.analyzer,
                            out.analyzer_input, out.result)
            /\ streak' = [streak EXCEPT ![session_id] =
                             StreakAfter(@, sessions[session_id], out.valid)]
            /\ analyses' = [analyses EXCEPT ![session_id] =
                               IF out.analyzer = NotCalled THEN @ ELSE @ + 1]
    /\ UNCHANGED <<now, ticks, evicted>>
    /\ UNCHANGED FRAUD_QUESTIONS

\* get_session looking the id up with setdefault: an absent id gets a session.
get_session_CreatesSession(session_id) ==
    LET created == DictSet(sessions, session_id, ConversationSession(session_id, now)) IN
    /\ sessions' = IF session_id \in DOMAIN sessions THEN sessions ELSE created
    /\ last' = Last("get_session", session_id, Stored(session_id), <<>>,
                    NotCalled, NotCalled, None,
                    [success |-> TRUE, session |-> Some(created[session_id])])
    /\ streak' = IF session_id \in DOMAIN sessions THEN streak
                 ELSE DictSet(streak, session_id, NoStreak)
    /\ analyses' = IF session_id \in DOMAIN sessions THEN analyses
                   ELSE DictSet(analyses, session_id, 0)
    /\ UNCHANGED <<now, ticks, evicted>>
    /\ UNCHANGED FRAUD_QUESTIONS

\* get_session removing what it returns (pop instead of get).
get_session_Pops(session_id) ==
    LET kept == (DOMAIN sessions) \ {session_id} IN
    /\ sessions' = [id \in kept |-> sessions[id]]
    /\ last' = Last("get_session", session_id, Stored(session_id), <<>>,
                    NotCalled, NotCalled, None,
                    [success |-> TRUE, session |-> Stored(session_id)])
    /\ streak' = [id \in kept |-> streak[id]]
    /\ analyses' = [id \in kept |-> analyses[id]]
    /\ UNCHANGED <<now, ticks, evicted>>
    /\ UNCHANGED FRAUD_QUESTIONS

\* ConversationEngine.get_session
get_session(session_id) ==
    /\ last' = Last("get_session", session_id, Stored(session_id), <<>>,
                    NotCalled, NotCalled, None,
                    [success |-> TRUE, session |-> Stored(session_id)])
    /\ UNCHANGED <<sessions, now, ticks, streak, analyses, evicted>>
    /\ UNCHANGED FRAUD_QUESTIONS

\* cleanup_old_sessions with <= at line 289: a session exactly one hour old
\* is removed.
cleanup_old_sessions_RemovesAtEdge ==
    LET one_hour_ago == now - RETENTION_SECONDS
        sessions_to_remove ==
            {session_id \in DOMAIN sessions : sessions[session_id].start_time <= one_hour_ago}
        kept == (DOMAIN sessions) \ sessions_to_remove
    IN  /\ sessions' = [session_id \in kept |-> sessions[session_id]]
        /\ last' = Last("cleanup_old_sessions", "", None, <<>>,
                        NotCalled, NotCalled, None,
                        [success |-> TRUE, removed |-> sessions_to_remove])
        /\ streak' = [session_id \in kept |-> streak[session_id]]
        /\ analyses' = [session_id \in kept |-> analyses[session_id]]
        /\ evicted' = evicted \cup sessions_to_remove
        /\ UNCHANGED <<now, ticks>>
        /\ UNCHANGED FRAUD_QUESTIONS

\* cleanup_old_sessions with the comparison of line 289 reversed.
cleanup_old_sessions_RemovesNew ==
    LET one_hour_ago == now - RETENTION_SECONDS
        sessions_to_remove ==
            {session_id \in DOMAIN sessions : sessions[session_id].start_time > one_hour_ago}
        kept == (DOMAIN sessions) \ sessions_to_remove
    IN  /\ sessions' = [session_id \in kept |-> sessions[session_id]]
        /\ last' = Last("cleanup_old_sessions", "", None, <<>>,
                        NotCalled, NotCalled, None,
                        [success |-> TRUE, removed |-> sessions_to_remove])
        /\ streak' = [session_id \in kept |-> streak[session_id]]
        /\ analyses' = [session_id \in kept |-> analyses[session_id]]
        /\ evicted' = evicted \cup sessions_to_remove
        /\ UNCHANGED <<now, ticks>>
        /\ UNCHANGED FRAUD_QUESTIONS

\* ConversationEngine.cleanup_old_sessions
cleanup_old_sessions ==
    LET one_hour_ago == now - RETENTION_SECONDS
        sessions_to_remove ==
            {session_id \in DOMAIN sessions : sessions[session_id].start_time < one_hour_ago}
        kept == (DOMAIN sessions) \ sessions_to_remove
    IN  /\ sessions' = [session_id \in kept |-> sessions[session_id]]
        /\ last' = Last("cleanup_old_sessions", "", None, <<>>,
                        NotCalled, NotCalled, None,
                        [success |-> TRUE, removed |-> sessions_to_remove])
        /\ streak' = [session_id \in kept |-> streak[session_id]]
        /\ analyses' = [session_id \in kept |-> analyses[session_id]]
        /\ evicted' = evicted \cup sessions_to_remove
        /\ UNCHANGED <<now, ticks>>
        /\ UNCHANGED FRAUD_QUESTIONS

\* Time passes between two operations.
Tick ==
    /\ ticks < MaxTicks
    /\ \E d \in TickSteps : now' = now + d
    /\ ticks' = ticks + 1
    /\ UNCHANGED <<sessions, last, streak, analyses, evicted, inflight, threads>>
    /\ UNCHANGED FRAUD_QUESTIONS
    /\ UNCHANGED asked
    /\ UNCHANGED flask
    /\ UNCHANGED deps
    /\ UNCHANGED entries
    /\ UNCHANGED detached
    /\ UNCHANGED taken

----------------------------------------------------------------------------
(* Specifications *)

\* The validator's chat-completion call is made on a stored, uncompleted
\* session when the message passes the length pre-filter.
ValidatorCalled(session_id, user_message) ==
    /\ session_id \in DOMAIN sessions
    /\ ~sessions[session_id].completed
    /\ ~PreFilterRejects(user_message)

\* The analyzer's chat-completion call is made when the answer completes the
\* session.
AnalyzerCalled(session_id, user_message, v) ==
    /\ session_id \in DOMAIN sessions
    /\ ~sessions[session_id].completed
    /\ AnswerQuestion(sessions[session_id], user_message, v, NotCalled).session.completed

\* The public operations of the engine, each call run from start to end before
\* the next begins, with any arguments (also a message the request model of
\* the route would reject before the engine is called).
StartStep(ids) ==
    /\ \E session_id \in ids : start_session(session_id)
    /\ UNCHANGED <<inflight, threads, asked, flask, deps, entries, detached, taken>>

\* A call that is made has any of its outcomes; a call that is not made has none.
RespondStep(ids, messages, validator_outcomes, analyzer_outcomes) ==
    \E session_id \in ids, user_message \in messages :
        \E v \in IF ValidatorCalled(session_id, user_message)
                 THEN validator_outcomes ELSE {NotCalled} :
            \E a \in IF AnalyzerCalled(session_id, user_message, v)
                     THEN analyzer_outcomes ELSE {NotCalled} :
                /\ process_response(session_id, user_message, v, a)
                /\ UNCHANGED <<inflight, threads, asked, flask, deps, entries, detached, taken>>

StatusStep(ids) ==
    /\ \E session_id \in ids : get_session(session_id)
    /\ UNCHANGED <<inflight, threads, asked, flask, deps, entries, detached, taken>>

SweepStep ==
    /\ cleanup_old_sessions
    /\ UNCHANGED <<inflight, threads, asked, flask, deps, entries, detached, taken>>

\* process_response in the steps its external calls divide it into. The
\* handler runs on the event loop without yielding to it, and both calls are
\* blocking ones: no other operation runs while one is in flight.
Waiting(stage, session_id, user_message, before, validator) ==
    [stage |-> stage, session_id |-> session_id, user_message |-> user_message,
     before |-> before, validator |-> validator]

Pending == CHOOSE call \in inflight : TRUE

\* Lines 91-109 and 172-173: up to the first external call, or to the end
\* when the handler makes none.
BeginResponse(session_id, user_message) ==
    /\ inflight = None
    /\ IF ValidatorCalled(session_id, user_message)
       THEN /\ inflight' = Some(Waiting("validator", session_id, user_message,
                                        Stored(session_id), NotCalled))
            /\ UNCHANGED <<sessions, now, ticks, last, streak, analyses, evicted>>
       ELSE IF AnalyzerCalled(session_id, user_message, NotCalled)
       THEN /\ sessions' = [sessions EXCEPT ![session_id] =
                   AnswerQuestion(@, user_message, NotCalled, NotCalled).session]
            /\ inflight' = Some(Waiting("analyzer", session_id, user_message,
                                        Stored(session_id), NotCalled))
            /\ UNCHANGED <<now, ticks, last, streak, analyses, evicted>>
       ELSE /\ process_response(session_id, user_message, NotCalled, NotCalled)
            /\ UNCHANGED inflight
    /\ UNCHANGED threads
    /\ UNCHANGED FRAUD_QUESTIONS
    /\ UNCHANGED asked
    /\ UNCHANGED flask
    /\ UNCHANGED deps
    /\ UNCHANGED entries
    /\ UNCHANGED detached
    /\ UNCHANGED taken

\* Lines 198-209 and 111-145: the validator's call ends in v; the handler
\* runs up to the analyzer's call, or to the end when it does not complete
\* the session.
ValidatorReturns(v) ==
    /\ inflight # None
    /\ Pending.stage = "validator"
    /\ IF AnalyzerCalled(Pending.session_id, Pending.user_message, v)
       THEN /\ sessions' = [sessions EXCEPT ![Pending.session_id] =
                   AnswerQuestion(@, Pending.user_message, v, NotCalled).session]
            /\ inflight' = Some([Pending EXCEPT !.stage = "analyzer", !.validator = v])
            /\ UNCHANGED <<now, ticks, last, streak, analyses, evicted>>
       ELSE /\ process_response(Pending.session_id, Pending.user_message, v, NotCalled)
            /\ inflight' = None
    /\ UNCHANGED threads
    /\ UNCHANGED FRAUD_QUESTIONS
    /\ UNCHANGED asked
    /\ UNCHANGED flask
    /\ UNCHANGED deps
    /\ UNCHANGED entries
    /\ UNCHANGED detached
    /\ UNCHANGED taken

\* Lines 238-248 and 148-153: the analyzer's call ends in a; the handler
\* returns the assessment.
AnalyzerReturns(a) ==
    /\ inflight # None
    /\ Pending.stage = "analyzer"
    /\ LET session_id == Pending.session_id
           before == CHOOSE session \in Pending.before : TRUE
           out == AnswerQuestion(before, Pending.user_message, Pending.validator, a)
       IN  /\ last' = Last("process_response", session_id, Pending.before,
                           Pending.user_message, out.validator, out.analyzer,
                           out.analyzer_input, out.result)
           /\ streak' = [streak EXCEPT ![session_id] = StreakAfter(@, before, out.valid)]
           /\ analyses' = [analyses EXCEPT ![session_id] = @ + 1]
    /\ inflight' = None
    /\ UNCHANGED <<sessions, now, ticks, evicted, threads>>
    /\ UNCHANGED FRAUD_QUESTIONS
    /\ UNCHANGED asked
    /\ UNCHANGED flask
    /\ UNCHANGED deps
    /\ UNCHANGED entries
    /\ UNCHANGED detached
    /\ UNCHANGED taken

\* One conversation seen also while its external calls are in flight.
NextCalls ==
    \/ inflight = None /\ StartStep(OneSession)
    \/ \E session_id \in OneSession, user_message \in Messages :
           BeginResponse(session_id, user_message)
    \/ \E v \in ValidatorOutcomes : ValidatorReturns(v)
    \/ \E a \in AnalyzerOutcomes : AnalyzerReturns(a)
    \/ inflight = None /\ StatusStep(OneSession)

SpecCalls == Init /\ [][NextCalls]_vars

\* Two conversations on the event loop seen while external calls are in
\* flight: the routes are coroutines of one loop and the calls of lines 198 and
\* 238 block it, so an operation begins when no call is in flight.
NextLoop ==
    \/ inflight = None /\ StartStep(TwoSessions)
    \/ \E session_id \in TwoSessions, user_message \in FewMessages :
           BeginResponse(session_id, user_message)
    \/ \E v \in FewValidatorOutcomes : ValidatorReturns(v)
    \/ \E a \in FewAnalyzerOutcomes : AnalyzerReturns(a)
    \/ inflight = None /\ StatusStep(TwoSessions)

SpecLoop == Init /\ [][NextLoop]_vars

\* The routes of routes/chat.py with the validation of their request models:
\* the ids and messages are what a request body can carry.
RequestIds == {"", "s1"}

RequestMessages ==
    { <<>>,
      <<" ", "a", "b", "c">> }

\* ChatStartRequest: session_id is a required str; Field(...) puts no
\* constraint on its length.
ChatStartRequest(session_id) == session_id \in STRING

\* ChatResponseRequest: session_id a required str, message a str of
\* min_length 1.
ChatResponseRequest(session_id, message) ==
    session_id \in STRING /\ Len(message) >= 1

\* A request that fails the validation of its model is answered 422 by the
\* framework and the route is not run.
Rejected(route, session_id, message) ==
    /\ last' = Last(route, session_id, None, message, NotCalled, NotCalled, None,
                    [success |-> FALSE, status |-> 422])
    /\ UNCHANGED <<sessions, now, ticks, streak, analyses, evicted>>
    /\ UNCHANGED FRAUD_QUESTIONS

\* start_conversation
start_conversation(session_id) ==
    IF ChatStartRequest(session_id)
    THEN start_session(session_id)
    ELSE Rejected("start_conversation", session_id, <<>>)

\* The route process_response.
route_process_response(session_id, message, v, a) ==
    IF ChatResponseRequest(session_id, message)
    THEN process_response(session_id, message, v, a)
    ELSE Rejected("process_response", session_id, message)

\* Conversations driven through the routes.
NextTransport ==
    \/ /\ \E session_id \in RequestIds : start_conversation(session_id)
       /\ UNCHANGED <<inflight, threads, asked, flask, deps, entries, detached, taken>>
    \/ /\ \E session_id \in RequestIds, message \in RequestMessages :
              \E v \in IF ValidatorCalled(session_id, message)
                       THEN FewValidatorOutcomes ELSE {NotCalled} :
                  \E a \in IF AnalyzerCalled(session_id, message, v)
                           THEN FewAnalyzerOutcomes ELSE {NotCalled} :
                      route_process_response(session_id, message, v, a)
       /\ UNCHANGED <<inflight, threads, asked, flask, deps, entries, detached, taken>>
    \/ StatusStep({"s1"})

SpecTransport == Init /\ [][NextTransport]_vars

\* cleanup_old_sessions run on timer threads beside the event loop. The
\* engine takes no lock and the interpreter can switch threads at every call
\* and at the end of every pass of a loop: in start_session between the
\* reading of the clock and the store of the session; in process_response
\* between the lookup and what follows its external calls; in the sweep after
\* the reading of the clock, after the dict iterator of line 288 is made,
\* between two items of the comprehension, between the selection and the
\* first del, and between two dels of line 293.
Timers == {"t1", "t2"}

\* The timer of the specification with one sweep at a time.
OneTimer == {"t1"}

\* The entries a key table of that many slots takes before an insertion
\* rebuilds it: two thirds of its slots.
Usable(slots) == (2 * slots) \div 3

\* The slots of a table rebuilt to hold `used` keys: 8 when it holds none,
\* otherwise the first of 16, 32, ... that is three times the keys or more.
RECURSIVE Grown(_, _)
Grown(slots, used) == IF slots >= 3 * used THEN slots ELSE Grown(2 * slots, used)

\* The keys of a key table, in the order a dict iterates them.
Live(keys) == SelectSeq(keys, LAMBDA entry : entry # None)

\* The table an insertion finds no entry left in, rebuilt without its
\* deleted entries.
Rebuilt(table) ==
    LET live == Live(table.keys) IN
    [slots |-> IF live = <<>> THEN 8 ELSE Grown(16, Len(live)), keys |-> live]

\* d[k] = v on the key table: a new key is appended, after the table is
\* rebuilt if it has no entry left; a key already there stays.
DictInsert(table, k) ==
    IF \E i \in 1..Len(table.keys) : table.keys[i] = Some(k) THEN table
    ELSE LET room == IF Len(table.keys) >= Usable(table.slots)
                     THEN Rebuilt(table) ELSE table
         IN  [room EXCEPT !.keys = Append(@, Some(k))]

\* del d[k] on the key table: the entry is left empty in its place.
DictDelete(table, k) ==
    [table EXCEPT !.keys =
        [i \in 1..Len(table.keys) |->
            IF table.keys[i] = Some(k) THEN None ELSE table.keys[i]]]

\* start_session on the event loop, lines 63-71: the clock is read for the
\* start_time of the session that line 72 will store.
StartReads(session_id) ==
    /\ inflight = None
    /\ inflight' = Some([stage |-> "store", session_id |-> session_id,
                         start_time |-> now])
    /\ UNCHANGED <<sessions, now, ticks, last, streak, analyses, evicted, threads>>
    /\ UNCHANGED FRAUD_QUESTIONS
    /\ UNCHANGED asked
    /\ UNCHANGED flask
    /\ UNCHANGED deps
    /\ UNCHANGED entries
    /\ UNCHANGED detached
    /\ UNCHANGED taken

\* start_session, lines 72-78: the session is stored with the start_time read
\* before, and the first question returned.
StartStores ==
    /\ inflight # None
    /\ Pending.stage = "store"
    /\ LET session_id == Pending.session_id IN
       /\ sessions' = DictSet(sessions, session_id,
                              ConversationSession(session_id, Pending.start_time))
       /\ last' = Last("start_session", session_id, Stored(session_id), <<>>,
                       NotCalled, NotCalled, None,
                       ChatStartResponse(TRUE, FRAUD_QUESTIONS[1].question, session_id))
       /\ streak' = DictSet(streak, session_id, NoStreak)
       /\ analyses' = DictSet(analyses, session_id, 0)
       /\ evicted' = evicted \ {session_id}
       /\ entries' = DictInsert(entries, session_id)
    /\ inflight' = None
    /\ UNCHANGED <<now, ticks, threads>>
    /\ UNCHANGED FRAUD_QUESTIONS
    /\ UNCHANGED asked
    /\ UNCHANGED flask
    /\ UNCHANGED deps
    /\ UNCHANGED detached
    /\ UNCHANGED taken

\* get_session on the event loop, between two of its other operations.
StatusReads(ids) ==
    /\ inflight = None
    /\ StatusStep(ids)

\* The frame of a sweep: the dict iterator of line 288 keeps the number of
\* keys the store had when it was made (used), the entry it has come to (pos)
\* and the number of keys it has yet to give (len).
SweepFrame(pc, one_hour_ago, used, pos, len, sessions_to_remove, removed) ==
    [op |-> "cleanup_old_sessions", pc |-> pc, one_hour_ago |-> one_hour_ago,
     used |-> used, pos |-> pos, len |-> len,
     sessions_to_remove |-> sessions_to_remove, removed |-> removed]

\* Line 286: the clock is read. The iterator is not made yet.
SweepBegins(t) ==
    /\ t \notin DOMAIN threads
    /\ threads' = DictSet(threads, t,
                          SweepFrame("iterate", now - RETENTION_SECONDS,
                                     0, 0, 0, <<>>, {}))
    /\ UNCHANGED <<sessions, now, ticks, last, streak, analyses, evicted, inflight>>
    /\ UNCHANGED FRAUD_QUESTIONS
    /\ UNCHANGED asked
    /\ UNCHANGED flask
    /\ UNCHANGED deps
    /\ UNCHANGED entries
    /\ UNCHANGED detached
    /\ UNCHANGED taken

\* Line 288: self.sessions.items() is handed to the comprehension, whose
\* iterator takes the number of keys the store has now.
SweepIterates(t) ==
    /\ t \in DOMAIN threads
    /\ threads[t].pc = "iterate"
    /\ LET used == Cardinality(DOMAIN sessions) IN
       threads' = [threads EXCEPT ![t].pc = "select",
                                  ![t].used = used,
                                  ![t].pos = 0,
                                  ![t].len = used]
    /\ UNCHANGED <<sessions, now, ticks, last, streak, analyses, evicted, inflight>>
    /\ UNCHANGED FRAUD_QUESTIONS
    /\ UNCHANGED asked
    /\ UNCHANGED flask
    /\ UNCHANGED deps
    /\ UNCHANGED entries
    /\ UNCHANGED detached
    /\ UNCHANGED taken

\* The entries of the key table after position pos that hold a key.
EntriesAfter(pos) ==
    { i \in 1..Len(entries.keys) : i > pos /\ entries.keys[i] # None }

\* Lines 287-290, one pass of the comprehension: the iterator raises
\* RuntimeError when the store has another number of keys than when it was
\* made, or when it finds a key after it has given them all; otherwise it
\* gives the next item, which is selected if its start_time is older than one
\* hour, or it ends the selection.
SweepSelects(t) ==
    /\ t \in DOMAIN threads
    /\ threads[t].pc = "select"
    /\ IF Cardinality(DOMAIN sessions) # threads[t].used
       THEN threads' = [threads EXCEPT ![t].pc = "raised"]
       ELSE IF EntriesAfter(threads[t].pos) = {}
       THEN threads' = [threads EXCEPT ![t].pc = "delete"]
       ELSE IF threads[t].len = 0
       THEN threads' = [threads EXCEPT ![t].pc = "raised"]
       ELSE LET i == CHOOSE i \in EntriesAfter(threads[t].pos) :
                        \A j \in EntriesAfter(threads[t].pos) : i <= j
                session_id == CHOOSE k \in DOMAIN sessions : entries.keys[i] = Some(k)
            IN  threads' = [threads EXCEPT
                    ![t].pos = i,
                    ![t].len = @ - 1,
                    ![t].sessions_to_remove =
                        IF sessions[session_id].start_time < threads[t].one_hour_ago
                        THEN Append(@, session_id) ELSE @]
    /\ UNCHANGED <<sessions, now, ticks, last, streak, analyses, evicted, inflight>>
    /\ UNCHANGED FRAUD_QUESTIONS
    /\ UNCHANGED asked
    /\ UNCHANGED flask
    /\ UNCHANGED deps
    /\ UNCHANGED entries
    /\ UNCHANGED detached
    /\ UNCHANGED taken

\* Lines 292-293: the del of the next selected id; del raises KeyError when
\* the id is no longer a key of the store.
SweepDeletes(t) ==
    /\ t \in DOMAIN threads
    /\ threads[t].pc = "delete"
    /\ threads[t].sessions_to_remove # <<>>
    /\ LET session_id == Head(threads[t].sessions_to_remove) IN
           IF session_id \in DOMAIN sessions
           THEN LET kept == (DOMAIN sessions) \ {session_id} IN
                /\ sessions' = [id \in kept |-> sessions[id]]
                /\ streak' = [id \in kept |-> streak[id]]
                /\ analyses' = [id \in kept |-> analyses[id]]
                /\ evicted' = evicted \cup {session_id}
                /\ entries' = DictDelete(entries, session_id)
                /\ threads' = [threads EXCEPT
                                  ![t].sessions_to_remove = Tail(@),
                                  ![t].removed = @ \cup {session_id}]
           ELSE /\ threads' = [threads EXCEPT ![t].pc = "raised"]
                /\ UNCHANGED <<sessions, streak, analyses, evicted, entries>>
    /\ UNCHANGED <<now, ticks, last, inflight>>
    /\ UNCHANGED FRAUD_QUESTIONS
    /\ UNCHANGED asked
    /\ UNCHANGED flask
    /\ UNCHANGED deps
    /\ UNCHANGED detached
    /\ UNCHANGED taken

\* The loop of line 292 is over and the sweep returns.
SweepReturns(t) ==
    /\ t \in DOMAIN threads
    /\ threads[t].pc = "delete"
    /\ threads[t].sessions_to_remove = <<>>
    /\ last' = Last("cleanup_old_sessions", "", None, <<>>,
                    NotCalled, NotCalled, None,
                    [success |-> TRUE, removed |-> threads[t].removed])
    /\ threads' = [other \in (DOMAIN threads) \ {t} |-> threads[other]]
    /\ UNCHANGED <<sessions, now, ticks, streak, analyses, evicted, inflight>>
    /\ UNCHANGED FRAUD_QUESTIONS
    /\ UNCHANGED asked
    /\ UNCHANGED flask
    /\ UNCHANGED deps
    /\ UNCHANGED entries
    /\ UNCHANGED detached
    /\ UNCHANGED taken

\* process_response while a timer thread runs the sweep during its external
\* calls. The handler keeps the session object it looked up at line 91: what
\* it writes reaches the store as long as the store still holds that object,
\* and its result is built from the object either way. No start_session runs
\* meanwhile (the event loop is in this call), so the store holds the object
\* exactly while it holds the id.
HeldSession == CHOOSE session \in Pending.before : TRUE

\* Lines 198-209 and 111-145 on the session object the handler holds.
HeldValidatorReturns(v) ==
    /\ inflight # None
    /\ Pending.stage = "validator"
    /\ LET session_id == Pending.session_id
           out == AnswerQuestion(HeldSession, Pending.user_message, v, NotCalled)
       IN  /\ sessions' = IF session_id \in DOMAIN sessions
                          THEN [sessions EXCEPT ![session_id] = out.session]
                          ELSE sessions
           /\ IF out.session.completed
              THEN /\ inflight' = Some([Pending EXCEPT !.stage = "analyzer",
                                                       !.validator = v])
                   /\ UNCHANGED <<last, streak>>
              ELSE /\ inflight' = None
                   /\ last' = Last("process_response", session_id, Pending.before,
                                   Pending.user_message, out.validator, out.analyzer,
                                   out.analyzer_input, out.result)
                   /\ streak' = IF session_id \in DOMAIN streak
                                THEN [streak EXCEPT ![session_id] =
                                         StreakAfter(@, HeldSession, out.valid)]
                                ELSE streak
    /\ UNCHANGED <<now, ticks, analyses, evicted, threads>>
    /\ UNCHANGED FRAUD_QUESTIONS
    /\ UNCHANGED asked
    /\ UNCHANGED flask
    /\ UNCHANGED deps
    /\ UNCHANGED entries
    /\ UNCHANGED detached
    /\ UNCHANGED taken

\* Lines 238-248 and 148-153 on the session object the handler holds.
HeldAnalyzerReturns(a) ==
    /\ inflight # None
    /\ Pending.stage = "analyzer"
    /\ LET session_id == Pending.session_id
           out == AnswerQuestion(HeldSession, Pending.user_message, Pending.validator, a)
       IN  /\ last' = Last("process_response", session_id, Pending.before,
                           Pending.user_message, out.validator, out.analyzer,
                           out.analyzer_input, out.result)
           /\ streak' = IF session_id \in DOMAIN streak
                        THEN [streak EXCEPT ![session_id] =
                                 StreakAfter(@, HeldSession, out.valid)]
                        ELSE streak
           /\ analyses' = IF session_id \in DOMAIN analyses
                          THEN [analyses EXCEPT ![session_id] = @ + 1]
                          ELSE analyses
    /\ inflight' = None
    /\ UNCHANGED <<sessions, now, ticks, evicted, threads>>
    /\ UNCHANGED FRAUD_QUESTIONS
    /\ UNCHANGED asked
    /\ UNCHANGED flask
    /\ UNCHANGED deps
    /\ UNCHANGED entries
    /\ UNCHANGED detached
    /\ UNCHANGED taken

\* One conversation on the event loop while two timers run the sweep.
NextTimer ==
    \/ \E session_id \in OneSession : StartReads(session_id)
    \/ StartStores
    \/ \E session_id \in OneSession, user_message \in OneMessage :
           BeginResponse(session_id, user_message)
    \/ \E v \in UnavailableValidator : HeldValidatorReturns(v)
    \/ \E a \in FewAnalyzerOutcomes : HeldAnalyzerReturns(a)
    \/ StatusReads(OneSession)
    \/ \E t \in Timers : SweepBegins(t)
    \/ \E t \in Timers : SweepIterates(t)
    \/ \E t \in Timers : SweepSelects(t)
    \/ \E t \in Timers : SweepDeletes(t)
    \/ \E t \in Timers : SweepReturns(t)
    \/ Tick

SpecTimer == Init /\ [][NextTimer]_vars

\* One conversation on the event loop, with any verdict of the validator; the
\* clock moves and one timer runs the sweep also while an external call is in
\* flight.
NextHeld ==
    \/ \E session_id \in OneSession : StartReads(session_id)
    \/ StartStores
    \/ \E session_id \in OneSession, user_message \in FewMessages :
           BeginResponse(session_id, user_message)
    \/ \E v \in FewValidatorOutcomes : HeldValidatorReturns(v)
    \/ \E a \in FewAnalyzerOutcomes : HeldAnalyzerReturns(a)
    \/ \E t \in OneTimer : SweepBegins(t)
    \/ \E t \in OneTimer : SweepIterates(t)
    \/ \E t \in OneTimer : SweepSelects(t)
    \/ \E t \in OneTimer : SweepDeletes(t)
    \/ \E t \in OneTimer : SweepReturns(t)
    \/ Tick

SpecHeld == Init /\ [][NextHeld]_vars

----------------------------------------------------------------------------
(* app/utils/dependencies.py: the providers of the client and the engine *)

\* The requests the process serves at a time. FastAPI calls a dependency
\* written as a plain def on a worker thread of its pool, so the providers of
\* two requests run beside each other and the interpreter can switch between
\* them at any line. The routes are coroutines of the one event loop and call
\* the engine without awaiting: a route runs from one blocking call of the
\* engine to the next, and while it waits in one the loop hands no dependency
\* to the pool and runs no other route.
Requests == {"r1", "r2", "r3"}

Routes == {"start_conversation", "process_response", "get_session_status"}

\* os.getenv("OPENAI_API_KEY"): unset, or a key.
ApiKeys == {<<>>, <<"sk">>}

\* The ids of the sessions that start_conversation has answered as started.
StartedEarlier == deps.started

\* No route is waiting in a call of the engine to the external service.
LoopIsFree ==
    \A r \in DOMAIN threads : threads[r].pc \notin {"validator", "analyzer"}

\* The requests that have not been answered yet.
Unanswered == { r \in DOMAIN threads : threads[r].pc # "done" }

\* The name the next request goes by: one not used yet, or when all are in
\* use the first whose request has been answered.
NextRequest ==
    LET order == <<"r1", "r2", "r3">>
        unused == { i \in 1..Len(order) : order[i] \notin DOMAIN threads }
        answered == { i \in 1..Len(order) : order[i] \notin Unanswered }
        free == IF unused # {} THEN unused ELSE answered
    IN  IF free = {} THEN "" ELSE order[CHOOSE i \in free : \A j \in free : i <= j]

\* A request arrives: the loop hands its dependency to a worker thread, which
\* is about to run line 48.
RequestArrives(r, route, session_id) ==
    /\ r = NextRequest
    /\ LoopIsFree
    /\ taken < MaxRequests
    /\ taken' = taken + 1
    /\ IF Unanswered = {}
       THEN UNCHANGED deps
       ELSE /\ deps.overlaps < MaxOverlaps
            /\ deps' = [deps EXCEPT !.overlaps = @ + 1]
    /\ threads' = DictSet(threads, r,
                          [op |-> "get_conversation_engine", route |-> route,
                           session_id |-> session_id, pc |-> "line48",
                           openai_client |-> None, engine |-> None,
                           earlier |-> StartedEarlier,
                           user_message |-> <<>>, result |-> NoResult])
    /\ UNCHANGED <<sessions, now, ticks, last, streak, analyses, evicted, inflight>>
    /\ UNCHANGED FRAUD_QUESTIONS
    /\ UNCHANGED asked
    /\ UNCHANGED flask
    /\ UNCHANGED entries
    /\ UNCHANGED detached

\* The frame of request r moves to pc with the fields given.
Moves(r, frame) ==
    /\ threads' = [threads EXCEPT ![r] = frame]
    /\ UNCHANGED <<sessions, now, ticks, last, streak, analyses, evicted, inflight>>
    /\ UNCHANGED FRAUD_QUESTIONS
    /\ UNCHANGED asked
    /\ UNCHANGED flask
    /\ UNCHANGED entries
    /\ UNCHANGED detached
    /\ UNCHANGED taken

At(r, pc) == r \in DOMAIN threads /\ threads[r].pc = pc

\* Line 48: if _conversation_engine is None
EngineIsNone(r) ==
    /\ At(r, "line48")
    /\ Moves(r, [threads[r] EXCEPT !.pc = IF deps._conversation_engine = None
                                         THEN "line29" ELSE "line52"])
    /\ UNCHANGED deps
    /\ UNCHANGED entries
    /\ UNCHANGED detached
    /\ UNCHANGED taken

\* Line 29: if _openai_client is None
ClientIsNone(r) ==
    /\ At(r, "line29")
    /\ Moves(r, [threads[r] EXCEPT !.pc = IF deps._openai_client = None
                                         THEN "line30" ELSE "line36"])
    /\ UNCHANGED deps
    /\ UNCHANGED entries
    /\ UNCHANGED detached
    /\ UNCHANGED taken

\* Lines 30-34: without a key ValueError leaves both providers and the
\* request is answered with an error; with one a client is constructed and
\* assigned to the global.
CreateClient(r, api_key) ==
    /\ At(r, "line30")
    /\ IF api_key = <<>>
       THEN /\ Moves(r, [threads[r] EXCEPT
                            !.pc = "done",
                            !.result = [success |-> FALSE, raised |-> "ValueError"]])
            /\ UNCHANGED deps
            /\ UNCHANGED entries
            /\ UNCHANGED detached
            /\ UNCHANGED taken
       ELSE /\ Moves(r, [threads[r] EXCEPT !.pc = "line36"])
            /\ deps' = [deps EXCEPT !.clients = @ + 1,
                                    !._openai_client = Some(deps.clients + 1)]

\* Line 36: return _openai_client, the global as it is now.
ReturnClient(r) ==
    /\ At(r, "line36")
    /\ Moves(r, [threads[r] EXCEPT !.pc = "line50",
                                   !.openai_client = deps._openai_client])
    /\ UNCHANGED deps
    /\ UNCHANGED entries
    /\ UNCHANGED detached
    /\ UNCHANGED taken

\* get_openai_client
get_openai_client(r) ==
    \/ ClientIsNone(r)
    \/ \E api_key \in ApiKeys : CreateClient(r, api_key)
    \/ ReturnClient(r)

\* ConversationEngine.__init__ (conversation_engine.py lines 42-51): the
\* engine keeps the client and starts with an empty store.
ConversationEngine(openai_client) ==
    [openai_client |-> openai_client, sessions |-> <<>>]

\* Line 50: an engine is constructed and assigned to the global.
CreateEngine(r) ==
    /\ At(r, "line50")
    /\ Moves(r, [threads[r] EXCEPT !.pc = "line52"])
    /\ deps' = [deps EXCEPT
                   !.engines = Append(@, ConversationEngine(threads[r].openai_client)),
                   !._conversation_engine = Some(Len(deps.engines) + 1)]

\* Line 52: return _conversation_engine, the global as it is now.
ReturnEngine(r) ==
    /\ At(r, "line52")
    /\ Moves(r, [threads[r] EXCEPT !.pc = "route",
                                   !.engine = deps._conversation_engine])
    /\ UNCHANGED deps
    /\ UNCHANGED entries
    /\ UNCHANGED detached
    /\ UNCHANGED taken

\* get_conversation_engine
get_conversation_engine(r) ==
    \/ EngineIsNone(r)
    \/ get_openai_client(r)
    \/ CreateEngine(r)
    \/ ReturnEngine(r)

\* The engine the dependency handed to request r.
EngineOf(r) == CHOOSE e \in threads[r].engine : TRUE

\* The store of engine e.
StoreOf(e) == deps.engines[e].sessions

\* The route is answered with result; the store of its engine becomes store.
Answers(r, store, result) ==
    /\ Moves(r, [threads[r] EXCEPT !.pc = "done", !.result = result])
    /\ deps' = [deps EXCEPT
                   !.engines[EngineOf(r)].sessions = store,
                   !.started = IF threads[r].route = "start_conversation"
                               THEN @ \cup {threads[r].session_id} ELSE @]

\* routes/chat.py start_conversation: engine.start_session on the engine of
\* the request.
EngineStart(r) ==
    /\ At(r, "route")
    /\ threads[r].route = "start_conversation"
    /\ LoopIsFree
    /\ LET session_id == threads[r].session_id IN
       Answers(r, DictSet(StoreOf(EngineOf(r)), session_id,
                          ConversationSession(session_id, now)),
               ChatStartResponse(TRUE, FRAUD_QUESTIONS[1].question, session_id))

\* The route of request r waits in the call of stage; the store of its
\* engine has become store.
Blocks(r, stage, user_message, store) ==
    /\ Moves(r, [threads[r] EXCEPT !.pc = stage, !.user_message = user_message])
    /\ deps' = [deps EXCEPT !.engines[EngineOf(r)].sessions = store]

\* routes/chat.py process_response: engine.process_response on the engine of
\* the request, lines 91-109 and 172-173 of the engine: up to the first call
\* to the external service, or to the end when the handler makes none.
EngineRespond(r, user_message) ==
    /\ At(r, "route")
    /\ threads[r].route = "process_response"
    /\ LoopIsFree
    /\ LET session_id == threads[r].session_id
           store == StoreOf(EngineOf(r))
       IN  IF session_id \notin DOMAIN store
           THEN Answers(r, store,
                        ChatResponseResponse(FALSE, SESSION_NOT_FOUND, FALSE, None))
           ELSE IF store[session_id].completed
           THEN Answers(r, store,
                        ChatResponseResponse(TRUE, ALREADY_COMPLETED, TRUE, None))
           ELSE IF ~PreFilterRejects(user_message)
           THEN Blocks(r, "validator", user_message, store)
           ELSE LET out == AnswerQuestion(store[session_id], user_message,
                                          NotCalled, NotCalled)
                IN  IF out.session.completed
                    THEN Blocks(r, "analyzer", user_message,
                                [store EXCEPT ![session_id] = out.session])
                    ELSE Answers(r, [store EXCEPT ![session_id] = out.session],
                                 out.result)

\* Lines 198-209 and 111-145 of the engine: the validator's call ends in v;
\* the handler runs up to the analyzer's call, the session stored with its
\* last answer, index 4 and completed, or to the end when the answer does not
\* complete the session.
EngineValidatorReturns(r, v) ==
    /\ At(r, "validator")
    /\ LET session_id == threads[r].session_id
           store == StoreOf(EngineOf(r))
           out == AnswerQuestion(store[session_id], threads[r].user_message,
                                 v, NotCalled)
       IN  IF out.session.completed
           THEN Blocks(r, "analyzer", threads[r].user_message,
                       [store EXCEPT ![session_id] = out.session])
           ELSE Answers(r, [store EXCEPT ![session_id] = out.session], out.result)

\* Lines 238-248 and 148-153 of the engine: the analyzer's call ends in a;
\* the route answers with the assessment.
EngineAnalyzerReturns(r, a) ==
    /\ At(r, "analyzer")
    /\ LET store == StoreOf(EngineOf(r)) IN
       Answers(r, store,
               ChatResponseResponse(TRUE, ALL_ANSWERED, TRUE,
                   Some(_perform_fraud_analysis(store[threads[r].session_id].answers,
                                                a))))

\* routes/chat.py get_session_status: engine.get_session on the engine of the
\* request, 404 without a session.
EngineStatus(r) ==
    /\ At(r, "route")
    /\ threads[r].route = "get_session_status"
    /\ LoopIsFree
    /\ LET session_id == threads[r].session_id
           store == StoreOf(EngineOf(r))
       IN  IF session_id \notin DOMAIN store
           THEN Answers(r, store, [success |-> FALSE, status_code |-> 404])
           ELSE Answers(r, store,
                        [success |-> TRUE, session_id |-> store[session_id].session_id,
                         current_question_index |->
                             store[session_id].current_question_index,
                         completed |-> store[session_id].completed,
                         answers_count |-> Cardinality(DOMAIN store[session_id].answers)])

\* Requests for one conversation, their dependencies on worker threads and
\* their routes on the event loop.
NextSingleton ==
    \/ \E r \in Requests, route \in Routes, session_id \in OneSession :
           RequestArrives(r, route, session_id)
    \/ \E r \in Requests : get_conversation_engine(r)
    \/ \E r \in Requests : EngineStart(r)
    \/ \E r \in Requests, user_message \in OneMessage : EngineRespond(r, user_message)
    \/ \E r \in Requests, v \in FewValidatorOutcomes : EngineValidatorReturns(r, v)
    \/ \E r \in Requests, a \in FewAnalyzerOutcomes : EngineAnalyzerReturns(r, a)
    \/ \E r \in Requests : EngineStatus(r)

SpecSingleton == Init /\ [][NextSingleton]_vars

\* app.py, the Flask variant of the service: its sessions are dicts without a
\* session_id, its results the JSON bodies with their status codes. The
\* server of app.run handles each request on a thread of its own, so two
\* respond_chat calls and a start_chat run beside each other.
Workers == {"w1", "w2"}

FlaskSession(start_time) ==
    [current_question_index |-> 0, answers |-> <<>>, retry_count |-> 0,
     completed |-> FALSE, start_time |-> start_time]

JsonResponse(status, body) == [status |-> status, body |-> body]

\* validate_response of app.py.
validate_response(user_message, question, v) ==
    IF user_message = <<>> \/ Len(strip(user_message)) < 3
    THEN [valid |-> FALSE, call |-> NotCalled]
    ELSE [valid |-> IF v.kind = "reply"
                    THEN lower(strip(v.content)) = <<"t", "r", "u", "e">>
                    ELSE TRUE,
          call |-> v]

\* perform_fraud_analysis of app.py.
perform_fraud_analysis(answers, a) ==
    IF a.kind = "reply"
    THEN strip(a.content)
    ELSE <<"RISK LEVEL: UNKNOWN\nANALYSIS: Unable to complete fraud analysis due to technical issues. Please verify payment details independently and consult with your bank if you have concerns.">>

\* The dict a handler holds: the one stored under its id (ref 0) or one that
\* start_chat has replaced in the store since the handler looked it up.
HeldDict(t) ==
    IF threads[t].ref = 0 THEN sessions[threads[t].session_id]
    ELSE detached[threads[t].ref]

\* The replaced dicts that the handlers of frames still hold.
StillHeld(dicts, frames) ==
    [k \in { j \in DOMAIN dicts : \E u \in DOMAIN frames : frames[u].ref = j }
        |-> dicts[k]]

\* start_chat: line 522 binds a new dict to the id; the handlers that looked
\* the id up before go on with the dict they got.
start_chat(session_id) ==
    /\ IF session_id = ""
       THEN /\ sessions' = sessions
            /\ last' = Last("start_chat", session_id, None, <<>>, NotCalled, NotCalled, None,
                            JsonResponse(400, [success |-> FALSE,
                                               message |-> <<"Session ID is required">>]))
            /\ UNCHANGED <<threads, detached>>
       ELSE LET holders == { t \in DOMAIN threads :
                               threads[t].session_id = session_id /\ threads[t].ref = 0 }
                k == CHOOSE j \in 1..(Cardinality(DOMAIN detached) + 1) :
                         j \notin DOMAIN detached
            IN  /\ sessions' = DictSet(sessions, session_id, FlaskSession(now))
                /\ last' = Last("start_chat", session_id, None, <<>>,
                                NotCalled, NotCalled, None,
                                JsonResponse(200, [success |-> TRUE,
                                                   message |-> FRAUD_QUESTIONS[1].question,
                                                   session_id |-> session_id]))
                /\ IF holders = {}
                   THEN UNCHANGED <<threads, detached>>
                   ELSE /\ detached' = DictSet(detached, k, sessions[session_id])
                        /\ threads' = [t \in DOMAIN threads |->
                                          IF t \in holders
                                          THEN [threads[t] EXCEPT !.ref = k]
                                          ELSE threads[t]]
    /\ UNCHANGED <<now, ticks, streak, analyses, evicted, inflight>>
    /\ UNCHANGED FRAUD_QUESTIONS
    /\ UNCHANGED asked
    /\ UNCHANGED flask
    /\ UNCHANGED deps
    /\ UNCHANGED entries
    /\ UNCHANGED taken

\* The frame of respond_chat: the dict it holds (ref), the index read at line
\* 553, the verdict of line 556 and the index read at line 590.
RespondFrame(pc, session_id, user_message, ref, current_question, is_valid_response, index) ==
    [op |-> "respond_chat", pc |-> pc, session_id |-> session_id,
     user_message |-> user_message, ref |-> ref,
     current_question |-> current_question,
     is_valid_response |-> is_valid_response, index |-> index]

Returned(t) == [other \in (DOMAIN threads) \ {t} |-> threads[other]]

RespondResult(t, status, body) ==
    Last("respond_chat", threads[t].session_id, None, threads[t].user_message,
         NotCalled, NotCalled, None, JsonResponse(status, body))

\* The handler of thread t has left its dict as session and goes on at pc.
GoesOn(t, session, frame) ==
    /\ threads' = [threads EXCEPT ![t] = frame]
    /\ IF threads[t].ref = 0
       THEN /\ sessions' = [sessions EXCEPT ![threads[t].session_id] = session]
            /\ UNCHANGED detached
            /\ UNCHANGED taken
       ELSE /\ detached' = [detached EXCEPT ![threads[t].ref] = session]
            /\ UNCHANGED sessions
    /\ UNCHANGED last

\* The handler of thread t has left its dict as session and answers the
\* request; an unhandled exception is answered with status 500.
Responds(t, session, status, body) ==
    /\ threads' = Returned(t)
    /\ IF threads[t].ref = 0
       THEN /\ sessions' = [sessions EXCEPT ![threads[t].session_id] = session]
            /\ detached' = StillHeld(detached, Returned(t))
       ELSE /\ detached' = StillHeld([detached EXCEPT ![threads[t].ref] = session],
                                     Returned(t))
            /\ UNCHANGED sessions
    /\ last' = RespondResult(t, status, body)

RaisedIndexError == [success |-> FALSE, raised |-> "IndexError"]

\* The interpreter switches threads at calls: a handler runs from one call to
\* the next without another thread in between.
\* respond_chat, lines 539-548: the request is read and the session looked up.
RespondReads(t, session_id, user_message) ==
    /\ t \notin DOMAIN threads
    /\ taken < MaxRequests
    /\ IF session_id = "" \/ user_message = <<>>
       THEN /\ last' = Last("respond_chat", session_id, None, user_message,
                            NotCalled, NotCalled, None,
                            JsonResponse(400, [success |-> FALSE,
                                message |-> <<"Session ID and message are required">>]))
            /\ UNCHANGED threads
       ELSE IF session_id \notin DOMAIN sessions
       THEN /\ last' = Last("respond_chat", session_id, None, user_message,
                            NotCalled, NotCalled, None,
                            JsonResponse(404, [success |-> FALSE,
                                message |-> <<"Session not found. Please refresh and start again.">>]))
            /\ UNCHANGED threads
       ELSE /\ threads' = DictSet(threads, t,
                   RespondFrame("check", session_id, user_message, 0, 0, FALSE, 0))
            /\ UNCHANGED last
    /\ taken' = taken + 1
    /\ UNCHANGED <<sessions, now, ticks, streak, analyses, evicted, inflight>>
    /\ UNCHANGED FRAUD_QUESTIONS
    /\ UNCHANGED asked
    /\ UNCHANGED flask
    /\ UNCHANGED deps
    /\ UNCHANGED entries
    /\ UNCHANGED detached

\* Lines 550-553: a completed session is acknowledged; otherwise the current
\* question is read from the catalog, IndexError when the index is past it.
RespondChecks(t) ==
    /\ t \in DOMAIN threads
    /\ threads[t].op = "respond_chat"
    /\ threads[t].pc = "check"
    /\ LET session == HeldDict(t) IN
       IF session.completed
       THEN Responds(t, session, 200,
                     [success |-> TRUE,
                      message |-> <<"Thank you! Your fraud assessment has been completed.">>,
                      completed |-> TRUE])
       ELSE IF session.current_question_index >= Len(FRAUD_QUESTIONS)
       THEN Responds(t, session, 500, RaisedIndexError)
       ELSE GoesOn(t, session,
                   [threads[t] EXCEPT !.pc = "validate",
                                      !.current_question = session.current_question_index])
    /\ UNCHANGED <<now, ticks, streak, analyses, evicted, inflight>>
    /\ UNCHANGED FRAUD_QUESTIONS
    /\ UNCHANGED asked
    /\ UNCHANGED flask
    /\ UNCHANGED deps
    /\ UNCHANGED entries
    /\ UNCHANGED taken

\* Line 556: validate_response returns; v is what its call does if made.
RespondValidates(t, v) ==
    /\ t \in DOMAIN threads
    /\ threads[t].op = "respond_chat"
    /\ threads[t].pc = "validate"
    /\ LET question == FRAUD_QUESTIONS[threads[t].current_question + 1]
           check == validate_response(threads[t].user_message, question, v)
       IN  /\ (check.call = NotCalled) = (v = NotCalled)
           /\ threads' = [threads EXCEPT ![t].pc = "commit",
                                         ![t].is_valid_response = check.valid]
    /\ UNCHANGED <<sessions, now, ticks, last, streak, analyses, evicted, inflight>>
    /\ UNCHANGED FRAUD_QUESTIONS
    /\ UNCHANGED asked
    /\ UNCHANGED flask
    /\ UNCHANGED deps
    /\ UNCHANGED entries
    /\ UNCHANGED detached
    /\ UNCHANGED taken

\* Lines 558-584: the verdict is applied to the dict the handler holds, up to
\* the re-prompt or to the call of move_to_next_question.
RespondCommits(t) ==
    /\ t \in DOMAIN threads
    /\ threads[t].op = "respond_chat"
    /\ threads[t].pc = "commit"
    /\ LET session == HeldDict(t)
           current_question == FRAUD_QUESTIONS[threads[t].current_question + 1]
           counted == [session EXCEPT !.retry_count = @ + 1]
       IN  IF threads[t].is_valid_response
           THEN GoesOn(t, [session EXCEPT
                              !.answers = DictSet(@, current_question.id,
                                                  threads[t].user_message),
                              !.retry_count = 0],
                       [threads[t] EXCEPT !.pc = "move"])
           ELSE IF counted.retry_count >= 3
           THEN GoesOn(t, [counted EXCEPT
                              !.retry_count = 0,
                              !.answers = DictSet(@, current_question.id,
                                                  RETRY_PLACEHOLDER)],
                       [threads[t] EXCEPT !.pc = "move"])
           ELSE Responds(t, counted, 200,
                         [success |-> TRUE, message |-> RetryMessage(current_question)])
    /\ UNCHANGED <<now, ticks, streak, analyses, evicted, inflight>>
    /\ UNCHANGED FRAUD_QUESTIONS
    /\ UNCHANGED asked
    /\ UNCHANGED flask
    /\ UNCHANGED deps
    /\ UNCHANGED entries
    /\ UNCHANGED taken

\* move_to_next_question, line 588 and the left side of line 590: the index
\* is advanced and read, before len is called.
RespondMoves(t) ==
    /\ t \in DOMAIN threads
    /\ threads[t].op = "respond_chat"
    /\ threads[t].pc = "move"
    /\ LET moved == [HeldDict(t) EXCEPT !.current_question_index = @ + 1] IN
       GoesOn(t, moved, [threads[t] EXCEPT !.pc = "branch",
                                           !.index = moved.current_question_index])
    /\ UNCHANGED <<now, ticks, streak, analyses, evicted, inflight>>
    /\ UNCHANGED FRAUD_QUESTIONS
    /\ UNCHANGED asked
    /\ UNCHANGED flask
    /\ UNCHANGED deps
    /\ UNCHANGED entries
    /\ UNCHANGED taken

\* Lines 590-606 after len has returned: past the last question the session
\* is marked completed and the analysis called; otherwise the index is read
\* again and the next question sent, IndexError when it is now past the
\* catalog.
RespondBranches(t) ==
    /\ t \in DOMAIN threads
    /\ threads[t].op = "respond_chat"
    /\ threads[t].pc = "branch"
    /\ LET session == HeldDict(t) IN
       IF threads[t].index >= Len(FRAUD_QUESTIONS)
       THEN GoesOn(t, [session EXCEPT !.completed = TRUE],
                   [threads[t] EXCEPT !.pc = "analyze"])
       ELSE IF session.current_question_index >= Len(FRAUD_QUESTIONS)
       THEN Responds(t, session, 500, RaisedIndexError)
       ELSE Responds(t, session, 200,
                     [success |-> TRUE,
                      message |->
                          FRAUD_QUESTIONS[session.current_question_index + 1].question])
    /\ UNCHANGED <<now, ticks, streak, analyses, evicted, inflight>>
    /\ UNCHANGED FRAUD_QUESTIONS
    /\ UNCHANGED asked
    /\ UNCHANGED flask
    /\ UNCHANGED deps
    /\ UNCHANGED entries
    /\ UNCHANGED taken

\* move_to_next_question, lines 593-600: perform_fraud_analysis returns and
\* the result is sent.
RespondAnalyzes(t, a) ==
    /\ t \in DOMAIN threads
    /\ threads[t].op = "respond_chat"
    /\ threads[t].pc = "analyze"
    /\ Responds(t, HeldDict(t), 200,
                [success |-> TRUE,
                 message |-> ALL_ANSWERED,
                 completed |-> TRUE,
                 fraud_analysis |-> perform_fraud_analysis(HeldDict(t).answers, a)])
    /\ UNCHANGED <<now, ticks, streak, analyses, evicted, inflight>>
    /\ UNCHANGED FRAUD_QUESTIONS
    /\ UNCHANGED asked
    /\ UNCHANGED flask
    /\ UNCHANGED deps
    /\ UNCHANGED entries
    /\ UNCHANGED taken

\* One Flask conversation, started at any time, answered by two requests at
\* a time.
NextRace ==
    \/ \E session_id \in OneSession : start_chat(session_id)
    \/ \E t \in Workers, session_id \in OneSession, user_message \in FewMessages :
           RespondReads(t, session_id, user_message)
    \/ \E t \in Workers : RespondChecks(t)
    \/ \E t \in Workers :
           \E v \in IF t \in DOMAIN threads /\ threads[t].op = "respond_chat"
                        /\ ~PreFilterRejects(threads[t].user_message)
                     THEN FewValidatorOutcomes ELSE {NotCalled} :
               RespondValidates(t, v)
    \/ \E t \in Workers : RespondCommits(t)
    \/ \E t \in Workers : RespondMoves(t)
    \/ \E t \in Workers : RespondBranches(t)
    \/ \E t \in Workers, a \in FewAnalyzerOutcomes : RespondAnalyzes(t, a)

SpecRace == Init /\ [][NextRace]_vars

----------------------------------------------------------------------------
(* app.py request by request, beside the engine *)

\* FRAUD_QUESTIONS of app.py, a list of dicts.
APP_FRAUD_QUESTIONS ==
    << [id |-> "payment_recipient",
        question |-> <<"Who are you making this payment to? Please provide the name of the person, organization, or company.">>,
        validation |-> "payment_recipient"],
       [id |-> "purpose_of_payment",
        question |-> <<"What is the purpose of this payment? Please describe what you are paying for (service, product, investment, etc.)">>,
        validation |-> "purpose_of_payment"],
       [id |-> "source_of_payment_link",
        question |-> <<"Where did you get the payment link or payment instructions from? Please share the source (email, website, text message, social media post, etc.)">>,
        validation |-> "source_of_payment_link"],
       [id |-> "website_verification",
        question |-> <<"Please provide the website URL or platform where you are making this payment, or describe how you are accessing the payment page.">>,
        validation |-> "website_verification"] >>

\* The contexts dict of respond_chat and its get with a default.
AppContext(question) ==
    CASE question.id = "payment_recipient" -> "who you are paying"
      [] question.id = "purpose_of_payment" -> "what you are paying for"
      [] question.id = "source_of_payment_link" -> "where you got the payment link from"
      [] question.id = "website_verification" -> "the website or platform you are using"
      [] OTHER -> "this question"

\* The statement of line 588 on the dict of the session, adding 2.
NextIndex_SkipsOne(session) == [session EXCEPT !.current_question_index = @ + 2]

\* session['current_question_index'] += 1, line 588.
NextIndex(session) == [session EXCEPT !.current_question_index = @ + 1]

\* The frame of a respond_chat of app.py beside the engine: the frame of
\* RespondFrame, and what the validator's and the analyzer's calls do when
\* this request makes them.
TwinFrame(pc, session_id, user_message, v, a, ref, current_question, is_valid_response, index) ==
    [pc |-> pc, session_id |-> session_id, user_message |-> user_message,
     v |-> v, a |-> a, ref |-> ref, current_question |-> current_question,
     is_valid_response |-> is_valid_response, index |-> index]

\* The dict the handler of thread t holds: the one stored under its id (ref
\* 0) or one that start_chat has replaced in the store since line 546.
TwinHeld(t) ==
    IF flask.handlers[t].ref = 0 THEN flask.sessions[flask.handlers[t].session_id]
    ELSE flask.detached[flask.handlers[t].ref]

\* app.py after the handler of thread t has left its dict as session.
TwinPut(t, session) ==
    IF flask.handlers[t].ref = 0
    THEN [flask EXCEPT !.sessions[flask.handlers[t].session_id] = session]
    ELSE [flask EXCEPT !.detached[flask.handlers[t].ref] = session]

\* The handler of thread t has left its dict as session and goes on at the
\* pc of frame.
TwinGoesOn(t, session, frame) ==
    flask' = [TwinPut(t, session) EXCEPT !.handlers[t] = frame]

\* The handler of thread t has left its dict as session and answers the
\* request; an unhandled exception is answered with status 500.
TwinResponds(t, session, status, body) ==
    LET put == TwinPut(t, session)
        left == [other \in (DOMAIN flask.handlers) \ {t} |-> flask.handlers[other]]
    IN  flask' = [put EXCEPT !.handlers = left,
                             !.detached = StillHeld(put.detached, left),
                             !.response = JsonResponse(status, body)]

\* A start request sent to the engine and to app.py. start_chat, line 522,
\* binds a new dict to the id; the handlers that looked the id up before go
\* on with the dict they got.
TwinStart(ids) ==
    /\ flask.handlers = <<>> \/ flask.overlaps < MaxOverlaps
    /\ \E session_id \in ids :
        /\ start_session(session_id)
        /\ IF session_id = ""
           THEN flask' = [flask EXCEPT
                    !.response = JsonResponse(400, [success |-> FALSE,
                                     message |-> <<"Session ID is required">>]),
                    !.overlaps = IF flask.handlers = <<>> THEN @ ELSE @ + 1]
           ELSE LET holders == { t \in DOMAIN flask.handlers :
                                   /\ flask.handlers[t].session_id = session_id
                                   /\ flask.handlers[t].ref = 0 }
                    k == CHOOSE j \in 1..(Cardinality(DOMAIN flask.detached) + 1) :
                             j \notin DOMAIN flask.detached
                IN  flask' = [flask EXCEPT
                        !.sessions = DictSet(@, session_id, FlaskSession(now)),
                        !.response = JsonResponse(200,
                            [success |-> TRUE,
                             message |-> APP_FRAUD_QUESTIONS[1].question,
                             session_id |-> session_id]),
                        !.detached = IF holders = {} THEN @
                                     ELSE DictSet(@, k, flask.sessions[session_id]),
                        !.handlers = [t \in DOMAIN flask.handlers |->
                                         IF t \in holders
                                         THEN [flask.handlers[t] EXCEPT !.ref = k]
                                         ELSE flask.handlers[t]],
                        !.overlaps = IF flask.handlers = <<>> THEN @ ELSE @ + 1]
    /\ UNCHANGED <<inflight, threads, asked, deps, entries, detached, taken>>

\* A respond request sent to the engine and to app.py; v and a are what the
\* validator's and the analyzer's calls do for this request where it makes
\* them (validate_response of app.py calls the validator for every message
\* that passes its length test). The engine handles it on its event loop before any other; in app.py
\* thread t takes it, lines 539-548: the request is read and the session
\* looked up.
TwinSend(t, ids, messages, validator_outcomes, analyzer_outcomes) ==
    /\ t \notin DOMAIN flask.handlers
    /\ flask.handlers = <<>> \/ flask.overlaps < MaxOverlaps
    /\ \E session_id \in ids, user_message \in messages, a \in analyzer_outcomes :
       \E v \in IF PreFilterRejects(user_message) THEN {NotCalled}
                ELSE validator_outcomes :
        LET called == IF ValidatorCalled(session_id, user_message)
                      THEN v ELSE NotCalled
        IN
        /\ process_response(session_id, user_message, called,
               IF AnalyzerCalled(session_id, user_message, called)
               THEN a ELSE NotCalled)
        /\ IF session_id = "" \/ user_message = <<>>
           THEN flask' = [flask EXCEPT
                    !.response = JsonResponse(400, [success |-> FALSE,
                        message |-> <<"Session ID and message are required">>]),
                    !.overlaps = IF flask.handlers = <<>> THEN @ ELSE @ + 1]
           ELSE IF session_id \notin DOMAIN flask.sessions
           THEN flask' = [flask EXCEPT
                    !.response = JsonResponse(404, [success |-> FALSE,
                        message |-> <<"Session not found. Please refresh and start again.">>]),
                    !.overlaps = IF flask.handlers = <<>> THEN @ ELSE @ + 1]
           ELSE flask' = [flask EXCEPT
                    !.handlers = DictSet(@, t,
                        TwinFrame("check", session_id, user_message, v, a,
                                  0, 0, FALSE, 0)),
                    !.overlaps = IF flask.handlers = <<>> THEN @ ELSE @ + 1]
    /\ UNCHANGED <<inflight, threads, asked, deps, entries, detached, taken>>

\* What a step of a handler of app.py leaves as it is: the engine.
TwinEngineWaits ==
    /\ UNCHANGED <<sessions, now, ticks, last, streak, analyses, evicted, inflight, threads>>
    /\ UNCHANGED FRAUD_QUESTIONS
    /\ UNCHANGED asked
    /\ UNCHANGED deps
    /\ UNCHANGED entries
    /\ UNCHANGED detached
    /\ UNCHANGED taken

\* Lines 550-553: a completed session is acknowledged; otherwise the current
\* question is read from the catalog, IndexError when the index is past it.
TwinChecks(t) ==
    /\ t \in DOMAIN flask.handlers
    /\ flask.handlers[t].pc = "check"
    /\ LET session == TwinHeld(t) IN
       IF session.completed
       THEN TwinResponds(t, session, 200,
                [success |-> TRUE,
                 message |-> <<"Thank you! Your fraud assessment has been completed.">>,
                 completed |-> TRUE])
       ELSE IF session.current_question_index >= Len(APP_FRAUD_QUESTIONS)
       THEN TwinResponds(t, session, 500, RaisedIndexError)
       ELSE TwinGoesOn(t, session,
                [flask.handlers[t] EXCEPT
                    !.pc = "validate",
                    !.current_question = session.current_question_index])
    /\ TwinEngineWaits

\* Line 556: validate_response returns.
TwinValidates(t) ==
    /\ t \in DOMAIN flask.handlers
    /\ flask.handlers[t].pc = "validate"
    /\ LET frame == flask.handlers[t]
           question == APP_FRAUD_QUESTIONS[frame.current_question + 1]
       IN  TwinGoesOn(t, TwinHeld(t),
               [frame EXCEPT
                   !.pc = "commit",
                   !.is_valid_response =
                       validate_response(frame.user_message, question, frame.v).valid])
    /\ TwinEngineWaits

\* Lines 558-584: the verdict is applied to the dict the handler holds, up to
\* the re-prompt or to the call of move_to_next_question.
TwinCommits(t) ==
    /\ t \in DOMAIN flask.handlers
    /\ flask.handlers[t].pc = "commit"
    /\ LET frame == flask.handlers[t]
           session == TwinHeld(t)
           current_question == APP_FRAUD_QUESTIONS[frame.current_question + 1]
           counted == [session EXCEPT !.retry_count = @ + 1]
       IN  IF frame.is_valid_response
           THEN TwinGoesOn(t, [session EXCEPT
                                  !.answers = DictSet(@, current_question.id,
                                                      frame.user_message),
                                  !.retry_count = 0],
                           [frame EXCEPT !.pc = "move"])
           ELSE IF counted.retry_count >= 3
           THEN TwinGoesOn(t, [counted EXCEPT
                                  !.retry_count = 0,
                                  !.answers = DictSet(@, current_question.id,
                                      <<"User unable to provide relevant answer after multiple attempts">>)],
                           [frame EXCEPT !.pc = "move"])
           ELSE TwinResponds(t, counted, 200,
                    [success |-> TRUE,
                     message |-> <<"I need a more specific answer about ",
                                   AppContext(current_question),
                                   ". Could you please provide more details?">>])
    /\ TwinEngineWaits

\* move_to_next_question, line 588 and the left side of line 590: the index
\* is advanced and read, before len is called.
TwinMoves(t) ==
    /\ t \in DOMAIN flask.handlers
    /\ flask.handlers[t].pc = "move"
    /\ LET moved == NextIndex(TwinHeld(t)) IN
       TwinGoesOn(t, moved, [flask.handlers[t] EXCEPT
                                !.pc = "branch",
                                !.index = moved.current_question_index])
    /\ TwinEngineWaits

\* Lines 590-606 after len has returned: past the last question the session
\* is marked completed and the analysis called; otherwise the index is read
\* again and the next question sent, IndexError when it is now past the
\* catalog.
TwinBranches(t) ==
    /\ t \in DOMAIN flask.handlers
    /\ flask.handlers[t].pc = "branch"
    /\ LET session == TwinHeld(t) IN
       IF flask.handlers[t].index >= Len(APP_FRAUD_QUESTIONS)
       THEN TwinGoesOn(t, [session EXCEPT !.completed = TRUE],
                       [flask.handlers[t] EXCEPT !.pc = "analyze"])
       ELSE IF session.current_question_index >= Len(APP_FRAUD_QUESTIONS)
       THEN TwinResponds(t, session, 500, RaisedIndexError)
       ELSE TwinResponds(t, session, 200,
                [success |-> TRUE,
                 message |->
                     APP_FRAUD_QUESTIONS[session.current_question_index + 1].question])
    /\ TwinEngineWaits

\* move_to_next_question, lines 593-600: perform_fraud_analysis returns and
\* the result is sent.
TwinAnalyzes(t) ==
    /\ t \in DOMAIN flask.handlers
    /\ flask.handlers[t].pc = "analyze"
    /\ TwinResponds(t, TwinHeld(t), 200,
           [success |-> TRUE,
            message |-> <<"Thank you for answering all the questions. Let me analyze this information for potential fraud indicators.">>,
            completed |-> TRUE,
            fraud_analysis |->
                perform_fraud_analysis(TwinHeld(t).answers, flask.handlers[t].a)])
    /\ TwinEngineWaits

\* Messages the two transports both let through: not empty.
NonEmptyMessages == Messages \ {<<>>}

\* The requests sent so far were handled one after another by app.py, and
\* the last of them has been answered.
OneAtATime == flask.handlers = <<>> /\ flask.overlaps = 0

\* One conversation sent request by request to the engine and to app.py,
\* whose threads take a request also while another is being handled: every
\* message and outcome while the requests are sent one after another, the
\* smaller inputs from the first request that is sent during another.
NextTwin ==
    \/ TwinStart(OneSession)
    \/ \E t \in Workers :
           /\ OneAtATime
           /\ TwinSend(t, OneSession, NonEmptyMessages, ValidatorOutcomes, AnalyzerOutcomes)
    \/ \E t \in Workers :
           /\ ~OneAtATime
           /\ TwinSend(t, OneSession, FewMessages, FewValidatorOutcomes, FewAnalyzerOutcomes)
    \/ \E t \in Workers : TwinChecks(t)
    \/ \E t \in Workers : TwinValidates(t)
    \/ \E t \in Workers : TwinCommits(t)
    \/ \E t \in Workers : TwinMoves(t)
    \/ \E t \in Workers : TwinBranches(t)
    \/ \E t \in Workers : TwinAnalyzes(t)

SpecTwin == Init /\ [][NextTwin]_vars

\* One conversation, with every message and every outcome of the external
\* calls, while time passes and the sweep runs.
Next ==
    \/ StartStep(OneSession)
    \/ RespondStep(OneSession, Messages, ValidatorOutcomes, AnalyzerOutcomes)
    \/ StatusStep(OneSession)
    \/ SweepStep
    \/ Tick

Spec == Init /\ [][Next]_vars

\* One conversation with its process_response calls counted per question: the
\* validator answers true or false, or its call fails.
VerdictOutcomes == FewValidatorOutcomes \cup UnavailableValidator

NotAsked == <<0, 0, 0, 0>>

\* start_session, from which the count begins anew.
CountedStart(ids) ==
    /\ \E session_id \in ids :
           /\ start_session(session_id)
           /\ asked' = DictSet(asked, session_id, NotAsked)
    /\ UNCHANGED <<inflight, threads, flask, deps, entries, detached, taken>>

\* process_response, counted at the question it finds the session awaiting
\* when the session is stored and not completed.
CountedRespond(ids, messages, validator_outcomes, analyzer_outcomes) ==
    \E session_id \in ids, user_message \in messages :
        \E v \in IF ValidatorCalled(session_id, user_message)
                 THEN validator_outcomes ELSE {NotCalled} :
            \E a \in IF AnalyzerCalled(session_id, user_message, v)
                     THEN analyzer_outcomes ELSE {NotCalled} :
                /\ process_response(session_id, user_message, v, a)
                /\ asked' =
                       IF session_id \in DOMAIN sessions /\ ~sessions[session_id].completed
                       THEN [asked EXCEPT
                                ![session_id][sessions[session_id].current_question_index + 1] =
                                    @ + 1]
                       ELSE asked
                /\ UNCHANGED <<inflight, threads, flask, deps, entries, detached, taken>>

NextCount ==
    \/ CountedStart(OneSession)
    \/ CountedRespond(OneSession, FewMessages, VerdictOutcomes, FewAnalyzerOutcomes)
    \/ StatusStep(OneSession)

SpecCount == Init /\ [][NextCount]_vars

\* Two conversations sharing the store, at one time of the clock.
NextStore ==
    \/ StartStep(TwoSessions)
    \/ RespondStep(TwoSessions, FewMessages, FewValidatorOutcomes, FewAnalyzerOutcomes)
    \/ StatusStep(TwoSessions)

SpecStore == Init /\ [][NextStore]_vars

\* Two conversations started at different times, while time passes and the
\* sweep runs; the external service is unavailable.
NextSweep ==
    \/ StartStep(TwoSessions)
    \/ RespondStep(TwoSessions, OneMessage, UnavailableValidator, FewAnalyzerOutcomes)
    \/ StatusStep(TwoSessions)
    \/ SweepStep
    \/ Tick

SpecSweep == Init /\ [][NextSweep]_vars

----------------------------------------------------------------------------
(* Properties *)

\* The last operation was a process_response.
Responded == last.op = "process_response"

\* The session the last operation found, and the one it left.
Before == CHOOSE session \in last.before : TRUE
After == sessions[last.session_id]

\* The last operation was a process_response that reached the validation:
\* it found a stored, uncompleted session.
Answered == Responded /\ last.before # None /\ ~Before.completed

\* The question that session was awaiting, and the verdict on the answer.
Awaited == FRAUD_QUESTIONS[Before.current_question_index + 1]
JudgedValid == _validate_response(last.user_message, Awaited, last.validator).valid

\* C1. Retry bound: when a session awaiting question i with retry_count 0
\* gets three answers in a row that are judged invalid, the first two leave it
\* at question i and the third leaves it at question i + 1 with the placeholder
\* stored under the id of question i and retry_count back to 0.
C1_RetryBound ==
    \A session_id \in DOMAIN sessions :
        LET run == streak[session_id]
            session == sessions[session_id]
            abandoned == FRAUD_QUESTIONS[run.index + 1].id
        IN  run.retry = 0 =>
                /\ run.n \in {1, 2} => session.current_question_index = run.index
                /\ run.n = 3 =>
                    /\ session.current_question_index = run.index + 1
                    /\ abandoned \in DOMAIN session.answers
                    /\ session.answers[abandoned] = RETRY_PLACEHOLDER
                    /\ session.retry_count = 0

\* Three invalid answers in a row have just abandoned the third question.
C1_Witness ==
    /\ Responded
    /\ last.session_id \in DOMAIN streak
    /\ streak[last.session_id] = [n |-> 3, index |-> 2, retry |-> 0]

\* C2. Monotonic advance: a process_response leaves current_question_index
\* where it was or one further, and no stored session is ever past index 4.
C2_MonotonicAdvance ==
    /\ \A session_id \in DOMAIN sessions :
           sessions[session_id].current_question_index \in 0..Len(FRAUD_QUESTIONS)
    /\ (Responded /\ last.before # None) =>
           /\ last.session_id \in DOMAIN sessions
           /\ After.current_question_index \in
                  {Before.current_question_index, Before.current_question_index + 1}

\* A process_response whose validator call failed has advanced to index 4.
C2_Witness ==
    /\ Answered
    /\ last.validator.kind = "raise"
    /\ Before.current_question_index = 3
    /\ After.current_question_index = 4

\* C3. A process_response on a completed session returns the fixed
\* acknowledgment with success and completed, calls neither the validator nor
\* the analyzer, and leaves the session as it was.
C3_CompletedIsReadOnly ==
    (Responded /\ last.before # None /\ Before.completed) =>
        /\ last.result = [success |-> TRUE,
                          message |-> <<"Thank you! Your fraud assessment has been completed.">>,
                          completed |-> TRUE,
                          fraud_analysis |-> None]
        /\ last.validator = NotCalled
        /\ last.analyzer = NotCalled
        /\ last.session_id \in DOMAIN sessions
        /\ After = Before

\* A completed session has been sent a message that passes the pre-filter.
C3_Witness ==
    /\ Responded
    /\ last.before # None
    /\ Before.completed
    /\ ~PreFilterRejects(last.user_message)

\* C4. An answer judged valid is stored as submitted under the id of the
\* awaited question, retry_count becomes 0 and the index grows by one; before
\* the last question the result is the prompt of the next question, not
\* completed.
C4_ValidAnswerAdvances ==
    (Answered /\ JudgedValid) =>
        /\ Awaited.id \in DOMAIN After.answers
        /\ After.answers[Awaited.id] = last.user_message
        /\ After.retry_count = 0
        /\ After.current_question_index = Before.current_question_index + 1
        /\ Before.current_question_index < 3 =>
               /\ last.result.message =
                      FRAUD_QUESTIONS[Before.current_question_index + 2].question
               /\ last.result.completed = FALSE

\* A valid answer with blanks around it has been given after two retries.
C4_Witness ==
    /\ Answered
    /\ JudgedValid
    /\ Before.retry_count = 2
    /\ Before.current_question_index = 1
    /\ strip(last.user_message) # last.user_message

\* C5. An answer judged invalid while retry_count + 1 < 3 adds one to
\* retry_count and changes nothing else of the session; the result is a
\* success, not completed, whose message is the re-prompt for the awaited
\* question.
C5_InvalidAnswerRetries ==
    (Answered /\ ~JudgedValid /\ Before.retry_count + 1 < 3) =>
        /\ After = [Before EXCEPT !.retry_count = Before.retry_count + 1]
        /\ last.result = [success |-> TRUE,
                          message |-> RetryMessage(Awaited),
                          completed |-> FALSE,
                          fraud_analysis |-> None]

\* The second invalid answer to the third question, rejected by the validator.
C5_Witness ==
    /\ Answered
    /\ ~JudgedValid
    /\ last.validator.kind = "reply"
    /\ Before.retry_count = 1
    /\ Before.current_question_index = 2

\* C6. The advance out of the last question, by a valid answer or by the
\* third invalid one, calls the analyzer with the session's answers, leaves
\* the session completed at index 4 and returns success, completed and the
\* analysis text.
C6_LastAdvanceAnalyses ==
    (/\ Answered
     /\ Before.current_question_index = 3
     /\ (JudgedValid \/ Before.retry_count + 1 >= 3)) =>
        /\ last.analyzer \in AnalyzerOutcomes
        /\ last.analyzer_input = Some(After.answers)
        /\ After.completed
        /\ After.current_question_index = 4
        /\ last.result.success
        /\ last.result.completed
        /\ last.result.fraud_analysis =
               Some(IF last.analyzer.kind = "reply"
                    THEN strip(last.analyzer.content) ELSE ANALYSIS_FALLBACK)

\* The last question has been abandoned after three invalid answers and the
\* analyzer has replied.
C6_Witness ==
    /\ Answered
    /\ Before.current_question_index = 3
    /\ ~JudgedValid
    /\ After.completed
    /\ last.analyzer.kind = "reply"

\* C7. A process_response for an id with no stored session changes nothing in
\* the store, makes no external call and returns the session-not-found failure.
C7_UnknownSessionFails ==
    [][(last'.op = "process_response" /\ last'.session_id \notin DOMAIN sessions) =>
           /\ sessions' = sessions
           /\ last'.validator = NotCalled
           /\ last'.analyzer = NotCalled
           /\ last'.result = [success |-> FALSE,
                              message |-> <<"Session not found. Please refresh and start again.">>,
                              completed |-> FALSE,
                              fraud_analysis |-> None]]_vars

\* An unknown id has been answered while another session is stored.
C7_Witness ==
    /\ Responded
    /\ last.before = None
    /\ ~last.result.success
    /\ ~PreFilterRejects(last.user_message)
    /\ last.session_id \notin DOMAIN sessions
    /\ \E other \in DOMAIN sessions : sessions[other].current_question_index > 0

\* C8. start_session stores under the id a session at index 0 with no answers,
\* retry_count 0 and completed false, and returns success, the id and the
\* prompt of the first question.
C8_StartCreatesSession ==
    last.op = "start_session" =>
        /\ last.session_id \in DOMAIN sessions
        /\ After.session_id = last.session_id
        /\ After.current_question_index = 0
        /\ After.answers = <<>>
        /\ After.retry_count = 0
        /\ After.completed = FALSE
        /\ last.result = [success |-> TRUE,
                          message |-> FRAUD_QUESTIONS[1].question,
                          session_id |-> last.session_id]

\* A session has been started on an id that had none.
C8_Witness ==
    /\ last.op = "start_session"
    /\ last.before = None

\* C9. start_session on an id that has a session, whatever its state, leaves
\* the store with a new session for the id and returns what it returns for
\* an id that has none.
C9_RestartResets ==
    (last.op = "start_session" /\ last.before # None) =>
        /\ last.session_id \in DOMAIN sessions
        /\ After = ConversationSession(last.session_id, After.start_time)
        /\ last.result = ChatStartResponse(TRUE, FRAUD_QUESTIONS[1].question,
                                           last.session_id)

\* A completed session has been started again.
C9_Witness ==
    /\ last.op = "start_session"
    /\ last.before # None
    /\ Before.completed
    /\ Cardinality(DOMAIN Before.answers) = 4

\* C10. Fail-open validation: when the validator's call fails on a message
\* that passed the pre-filter, the message is stored under the id of the
\* awaited question, retry_count becomes 0, the index grows by one and the
\* result is a success.
C10_ValidatorFailureAccepts ==
    (Answered /\ last.validator.kind \in {"raise", "malformed"}) =>
        /\ ~PreFilterRejects(last.user_message)
        /\ Awaited.id \in DOMAIN After.answers
        /\ After.answers[Awaited.id] = last.user_message
        /\ After.retry_count = 0
        /\ After.current_question_index = Before.current_question_index + 1
        /\ last.result.success

\* The validator's call has raised on what would have been the third invalid
\* answer.
C10_Witness ==
    /\ Answered
    /\ last.validator.kind = "raise"
    /\ Before.retry_count = 2
    /\ After.retry_count = 0

\* C11. When the analyzer's call fails on the process_response that completes
\* the session, the result is a success and completed, the stored session is
\* completed, and fraud_analysis is exactly the fixed fallback text.
C11_AnalyzerFailureFallsBack ==
    (Answered /\ last.analyzer.kind \in {"raise", "malformed"}) =>
        /\ last.result.success
        /\ last.result.completed
        /\ last.session_id \in DOMAIN sessions
        /\ After.completed
        /\ last.result.fraud_analysis =
               Some(<<"RISK LEVEL: UNKNOWN\nANALYSIS: Unable to complete fraud analysis due to technical issues. Please verify payment details independently and consult with your bank if you have concerns.">>)

\* The analyzer's reply lacked the assessment on a valid last answer.
C11_Witness ==
    /\ Answered
    /\ JudgedValid
    /\ last.analyzer.kind = "malformed"
    /\ Before.current_question_index = 3
    /\ After.completed

\* The number of characters of a text that are not whitespace.
RECURSIVE NonWhitespace(_)
NonWhitespace(s) ==
    IF s = <<>> THEN 0
    ELSE (IF Head(s) \in Whitespace THEN 0 ELSE 1) + NonWhitespace(Tail(s))

\* The session shows the handling of an answer judged invalid: one more retry,
\* or on the third the placeholder and the advance.
HandledAsInvalid ==
    /\ last.session_id \in DOMAIN sessions
    /\ IF Before.retry_count + 1 < 3
       THEN After = [Before EXCEPT !.retry_count = Before.retry_count + 1]
       ELSE /\ Awaited.id \in DOMAIN After.answers
            /\ After.answers[Awaited.id] = RETRY_PLACEHOLDER
            /\ After.current_question_index = Before.current_question_index + 1

\* C12 as stated. A message with fewer than 3 non-whitespace characters,
\* interior whitespace included, sent to an active session is judged invalid
\* without a validator call.
C12_FewNonWhitespaceRejectedLocally ==
    (Answered /\ NonWhitespace(last.user_message) < 3) =>
        /\ last.validator = NotCalled
        /\ HandledAsInvalid

\* C12, amended. A message whose text without its leading and trailing
\* whitespace has fewer than 3 characters, sent to an active session, is judged
\* invalid without a validator call; any longer one is sent to the validator.
C12_ShortAfterStripRejectedLocally ==
    Answered =>
        IF Len(strip(last.user_message)) < 3
        THEN /\ last.validator = NotCalled
             /\ HandledAsInvalid
        ELSE last.validator \in ValidatorOutcomes

\* A one-letter message between blanks has been rejected without a call.
C12_Witness ==
    /\ Answered
    /\ last.user_message = <<" ", "a", " ">>
    /\ last.validator = NotCalled
    /\ After.retry_count = Before.retry_count + 1

\* The verdict text of a validator reply, as line 205 reads it.
Verdict == lower(strip(last.validator.content))

\* The session shows the handling of an answer judged valid: the message
\* stored under the awaited id, retry_count 0 and the index one further.
HandledAsValid ==
    /\ last.session_id \in DOMAIN sessions
    /\ Awaited.id \in DOMAIN After.answers
    /\ After.answers[Awaited.id] = last.user_message
    /\ After.retry_count = 0
    /\ After.current_question_index = Before.current_question_index + 1

\* C13 as stated. Every failure of the validator's call, a reply that is
\* neither a 'true' nor a 'false' verdict included, is recovered by treating
\* the answer as valid: the session advances and retry_count is not
\* incremented.
C13_EveryValidatorErrorAccepts ==
    (/\ Answered
     /\ \/ last.validator.kind \in {"raise", "malformed"}
        \/ /\ last.validator.kind = "reply"
           /\ Verdict \notin {<<"t", "r", "u", "e">>, <<"f", "a", "l", "s", "e">>}) =>
        /\ HandledAsValid
        /\ After.retry_count # Before.retry_count + 1

\* C13, amended. A validator call that raises, or whose reply lacks the
\* verdict text, is recovered by treating the answer as valid; a reply whose
\* text, stripped and lower-cased, is anything but 'true' is judged invalid,
\* whether or not it is 'false'.
C13_OnlyFailedCallAccepts ==
    (Answered /\ last.validator # NotCalled) =>
        IF last.validator.kind = "reply" /\ Verdict # <<"t", "r", "u", "e">>
        THEN HandledAsInvalid
        ELSE HandledAsValid /\ last.result.success

\* The validator has replied with a text that is no verdict, and the answer
\* has cost a retry.
C13_Witness ==
    /\ Answered
    /\ last.validator.kind = "reply"
    /\ Verdict = <<"m", "a", "y", "b", "e">>
    /\ After.retry_count = Before.retry_count + 1

\* The step is a run of cleanup_old_sessions: the clock stands still and the
\* operation is recorded.
Swept == last'.op = "cleanup_old_sessions" /\ now' = now

\* C14. After a run of the sweep every session started more than the
\* retention window of one hour ago is absent from the store, and every
\* session started less than the window ago is still stored.
C14_SweepEvictsOldKeepsNew ==
    [][Swept =>
          \A session_id \in DOMAIN sessions :
              /\ sessions[session_id].start_time < now - 60 * 60 =>
                     session_id \notin DOMAIN sessions'
              /\ sessions[session_id].start_time > now - 60 * 60 =>
                     session_id \in DOMAIN sessions']_vars

\* A sweep has removed one session and left another, started within the
\* window.
C14_Witness ==
    /\ last.op = "cleanup_old_sessions"
    /\ last.result.removed # {}
    /\ \E session_id \in DOMAIN sessions :
           sessions[session_id].start_time > now - 60 * 60

\* C15. Between operations every stored session has retry_count 0, 1 or 2;
\* the invalid answer that would make it 3 stores the placeholder, puts
\* retry_count back to 0 and advances the index in the same process_response.
C15_RetryCountBelowThree ==
    /\ \A session_id \in DOMAIN sessions :
           sessions[session_id].retry_count \in {0, 1, 2}
    /\ (Answered /\ ~JudgedValid /\ Before.retry_count = 2) =>
           /\ last.session_id \in DOMAIN sessions
           /\ Awaited.id \in DOMAIN After.answers
           /\ After.answers[Awaited.id] =
                  <<"User unable to provide relevant answer after multiple attempts">>
           /\ After.retry_count = 0
           /\ After.current_question_index = Before.current_question_index + 1

\* The validator has rejected the third answer to the second question.
C15_Witness ==
    /\ Answered
    /\ ~JudgedValid
    /\ last.validator.kind = "reply"
    /\ Before.retry_count = 2
    /\ Before.current_question_index = 1
    /\ After.current_question_index = 2

\* C16. In every state reached by start_session, process_response and
\* cleanup_old_sessions, the answers of each stored session have exactly
\* current_question_index entries.
C16_OneAnswerPerAdvance ==
    \A session_id \in DOMAIN sessions :
        Cardinality(DOMAIN sessions[session_id].answers) =
            sessions[session_id].current_question_index

\* A session in the middle of its retries on the fourth question, after a
\* sweep, with an abandoned and an answered question behind it.
C16_Witness ==
    /\ last.op = "cleanup_old_sessions"
    /\ \E session_id \in DOMAIN sessions :
           LET session == sessions[session_id] IN
           /\ session.current_question_index = 3
           /\ session.retry_count = 2
           /\ \E q \in DOMAIN session.answers : session.answers[q] = RETRY_PLACEHOLDER
           /\ \E q \in DOMAIN session.answers : session.answers[q] # RETRY_PLACEHOLDER

\* No process_response is waiting for an external call.
BetweenOperations == inflight = None

\* C17. In no state is a session completed while its index is below 4 or
\* while no assessment has been produced for it, and between operations a
\* session at index 4 is completed. Line 145 sets completed before line 146
\* calls the analyzer (app.py lines 592-593 likewise): while that call is in
\* flight the stored session is completed and has no assessment.
C17_CompletedOnlyAfterAnalysis ==
    \A session_id \in DOMAIN sessions :
        LET session == sessions[session_id] IN
        /\ session.completed =>
               /\ session.current_question_index >= 4
               /\ analyses[session_id] >= 1
        /\ (BetweenOperations /\ session.current_question_index = 4) =>
               session.completed

\* The whole of an advance: an answer, the message or the placeholder, stored
\* under the id of the awaited question, retry_count 0, the index one
\* further, and completed exactly when the index has reached 4.
FullAdvance ==
    /\ After.current_question_index = Before.current_question_index + 1
    /\ \E answer \in {last.user_message, RETRY_PLACEHOLDER} :
           After.answers = DictSet(Before.answers, Awaited.id, answer)
    /\ After.retry_count = 0
    /\ After.completed = (After.current_question_index = 4)

\* Nothing of an advance.
NoAdvance ==
    /\ After.current_question_index = Before.current_question_index
    /\ After.answers = Before.answers
    /\ After.completed = Before.completed

\* C18. Every process_response, also one in which an external call fails, ends
\* with a full advance of the session or with its index, answers and completed
\* flag unchanged, never with a part of an advance.
C18_AdvanceIsAllOrNothing ==
    Responded =>
        IF last.before = None
        THEN last.session_id \notin DOMAIN sessions
        ELSE /\ last.session_id \in DOMAIN sessions
             /\ IF Answered THEN FullAdvance \/ NoAdvance ELSE NoAdvance

\* Both external calls have failed in the process_response that completed the
\* session after two retries.
C18_Witness ==
    /\ Answered
    /\ last.validator.kind = "malformed"
    /\ last.analyzer.kind = "raise"
    /\ Before.retry_count = 2
    /\ FullAdvance
    /\ After.completed

\* C19. An id enters the store only by a start_session for it and leaves it
\* only by the sweep; process_response and get_session neither add nor remove
\* an entry, so a process_response for an evicted id does not store a session
\* again.
C19_StoredByStartRemovedBySweep ==
    [][/\ \A session_id \in (DOMAIN sessions') \ (DOMAIN sessions) :
              last'.op = "start_session" /\ last'.session_id = session_id
       /\ \A session_id \in (DOMAIN sessions) \ (DOMAIN sessions') :
              last'.op = "cleanup_old_sessions" /\ session_id \in last'.result.removed
       /\ last'.op \in {"process_response", "get_session"} =>
              DOMAIN sessions' = DOMAIN sessions]_vars

\* An evicted id has been answered: the call failed and the id is still
\* absent, beside a session that is stored.
C19_Witness ==
    /\ Responded
    /\ last.session_id \in evicted
    /\ last.session_id \notin DOMAIN sessions
    /\ ~last.result.success
    /\ DOMAIN sessions # {}

\* C20. get_session returns the session stored under the id, or the absence
\* value when there is none, and leaves the store and every session in it as
\* they were.
C20_GetSessionIsPureLookup ==
    [][last'.op = "get_session" =>
          /\ sessions' = sessions
          /\ last'.result.session =
                 IF last'.session_id \in DOMAIN sessions
                 THEN {sessions[last'.session_id]}
                 ELSE None]_vars

\* A session in the middle of its retries has been looked up while the other
\* id has no session.
C20_Witness ==
    /\ last.op = "get_session"
    /\ last.session_id \in DOMAIN sessions
    /\ last.result.session = Some(After)
    /\ After.retry_count = 1
    /\ After.current_question_index = 2
    /\ DOMAIN sessions # TwoSessions

\* An id without a session has been looked up while the other has one.
C20_WitnessAbsent ==
    /\ last.op = "get_session"
    /\ last.session_id \notin DOMAIN sessions
    /\ last.result.session = None
    /\ DOMAIN sessions # {}

\* C21 as stated. Under every interleaving of the sweep with start_session,
\* process_response and another sweep, no sweep raises and no step removes a
\* session started within the retention window, also when the id is started
\* again between the selection and the deletion.
C21_SweepSafeUnderInterleaving ==
    [][/\ \A t \in DOMAIN threads' : threads'[t].pc # "raised"
       /\ \A session_id \in (DOMAIN sessions) \ (DOMAIN sessions') :
              sessions[session_id].start_time < now - 60 * 60]_vars

\* C22 as stated. Under every interleaving of two respond calls on one
\* session id, the index never exceeds 4, every question the index has passed
\* has an answer stored under its id, and once both calls have returned the
\* answers are as many as the index.
C22_ConcurrentRespondsKeepSession ==
    \A session_id \in DOMAIN sessions :
        LET session == sessions[session_id] IN
        /\ session.current_question_index <= 4
        /\ \A i \in 1..4 :
               i <= session.current_question_index =>
                   FRAUD_QUESTIONS[i].id \in DOMAIN session.answers
        /\ threads = <<>> =>
               Cardinality(DOMAIN session.answers) = session.current_question_index

\* A step of the event loop that runs a start_session or a process_response
\* for the id to its end.
RunsToCompletion(session_id) ==
    /\ NextLoop
    /\ last' # last
    /\ last'.op \in {"start_session", "process_response"}
    /\ last'.session_id = session_id

\* C23 as stated. While a call of the validator or of the analyzer for one
\* session is in flight, a start or a respond for another id can run to its
\* end: nothing is held across the external call.
C23_OthersRunDuringCall ==
    inflight # None =>
        \A other \in TwoSessions \ {Pending.session_id} :
            ENABLED RunsToCompletion(other)

\* C24 as stated. A start request with an empty session id is rejected before
\* it reaches the engine: no session is ever stored under the empty string.
C24_EmptyIdNeverStored ==
    "" \notin DOMAIN sessions

\* C25. In every state the catalog has exactly 4 entries, their ids are
\* payment_recipient, purpose_of_payment, source_of_payment_link and
\* website_verification in this order, all different, and every prompt is a
\* non-empty text: start_session, process_response, cleanup_old_sessions and
\* get_session leave the catalog as it was.
C25_CatalogFixed ==
    /\ Len(FRAUD_QUESTIONS) = 4
    /\ [i \in 1..4 |-> FRAUD_QUESTIONS[i].id] =
           <<"payment_recipient", "purpose_of_payment",
             "source_of_payment_link", "website_verification">>
    /\ \A i, j \in 1..4 : i # j => FRAUD_QUESTIONS[i].id # FRAUD_QUESTIONS[j].id
    /\ \A i \in 1..4 :
           /\ FRAUD_QUESTIONS[i].question # <<>>
           /\ \A k \in 1..Len(FRAUD_QUESTIONS[i].question) :
                  FRAUD_QUESTIONS[i].question[k] # ""

\* The sweep has just removed a session that a start had stored, and the
\* catalog still reads as at import.
C25_Witness ==
    /\ last.op = "cleanup_old_sessions"
    /\ last.result.removed # {}
    /\ evicted # {}
    /\ FRAUD_QUESTIONS = FraudQuestionsAtImport

\* The entries of a session's answers that a step leaves as they were.
KeepsAnswers(session_id) ==
    \A question_id \in DOMAIN sessions[session_id].answers :
        /\ question_id \in DOMAIN sessions'[session_id].answers
        /\ sessions'[session_id].answers[question_id] =
               sessions[session_id].answers[question_id]

\* C26. Each stored answer is written once: a process_response on a session
\* leaves every entry its answers already hold, user text or placeholder,
\* with the value it had; a step that changes or drops an entry of a session
\* that stays stored is a start_session on that id, which leaves no answers.
C26_AnswersWrittenOnce ==
    [][\A session_id \in (DOMAIN sessions) \cap (DOMAIN sessions') :
           /\ last'.op = "process_response" => KeepsAnswers(session_id)
           /\ ~KeepsAnswers(session_id) =>
                  /\ last'.op = "start_session"
                  /\ last'.session_id = session_id
                  /\ DOMAIN sessions'[session_id].answers = {}]_vars

\* A process_response has just stored the second answer of a session beside
\* its first, a placeholder, which it left as it was.
C26_Witness ==
    /\ Answered
    /\ Before.current_question_index = 1
    /\ Before.answers[FRAUD_QUESTIONS[1].id] = RETRY_PLACEHOLDER
    /\ After.current_question_index = 2
    /\ After.answers[FRAUD_QUESTIONS[1].id] = RETRY_PLACEHOLDER
    /\ After.answers[FRAUD_QUESTIONS[2].id] = last.user_message

\* C27. Since the last start_session on its id a stored session has had the
\* Risk Analyzer invoked once when it is completed and not at all when it is
\* not; and a process_response invokes the Relevance Validator when it finds
\* a stored, uncompleted session and a text that passes the length
\* pre-filter, and not when the session is absent or completed or the text
\* fails the pre-filter.
C27_OneAnalysisPerConversation ==
    /\ \A session_id \in DOMAIN sessions :
           analyses[session_id] = IF sessions[session_id].completed THEN 1 ELSE 0
    /\ Responded =>
           /\ last.analyzer # NotCalled => Answered /\ After.completed
           /\ last.validator # NotCalled <=>
                  Answered /\ ~PreFilterRejects(last.user_message)

\* A completed session, analysed once, has just been sent one more message:
\* neither the validator nor the analyzer was invoked for it.
C27_Witness ==
    /\ Responded
    /\ last.before # None
    /\ Before.completed
    /\ analyses[last.session_id] = 1
    /\ last.validator = NotCalled
    /\ last.analyzer = NotCalled

\* Question ids that are not in the catalog: the empty id, an unknown one, and
\* catalog ids in another case, with a space after, or cut short.
OtherQuestionIds ==
    {"", "unknown", "Payment_Recipient", "payment_recipient ", "website",
     "this question"}

\* C28. The re-prompt context lookup gives 'who you are paying' for
\* payment_recipient, 'what you are paying for' for purpose_of_payment, 'where
\* you got the payment link from' for source_of_payment_link, 'the website or
\* platform you are using' for website_verification and 'this question' for
\* every other id; and whenever a process_response on a session awaiting
\* question i returns the retry message, that message embeds the phrase of
\* catalog[i].
C28_RetryMessageNamesAwaitedQuestion ==
    LET phrases == <<"who you are paying", "what you are paying for",
                     "where you got the payment link from",
                     "the website or platform you are using">>
    IN  /\ \A i \in 1..4 :
               _get_question_context(FRAUD_QUESTIONS[i]) = phrases[i]
        /\ \A id \in OtherQuestionIds :
               _get_question_context([id |-> id]) = "this question"
        /\ (Answered /\ ~After.completed
                /\ After.current_question_index = Before.current_question_index) =>
               last.result.message =
                   <<"I need a more specific answer about ",
                     phrases[Before.current_question_index + 1],
                     ". Could you please provide more details?">>

\* The last question has just been asked again after a second invalid answer.
C28_Witness ==
    /\ Answered
    /\ ~JudgedValid
    /\ Before.current_question_index = 3
    /\ After.current_question_index = 3
    /\ After.retry_count = 2
    /\ last.result.message[2] = "the website or platform you are using"

\* The answers the analyzer was invoked with by the last operation.
AnalyzerInput == CHOOSE answers \in last.analyzer_input : TRUE

\* C29. Whenever the Risk Analyzer is invoked for a session driven by
\* start_session and process_response calls that run one after another, the
\* answers it receives hold an entry for each of the four catalog ids, and
\* none of the four lines of its prompt renders 'Not provided'.
C29_AnalyzerGetsAllFourAnswers ==
    last.analyzer # NotCalled =>
        /\ last.analyzer_input # None
        /\ \A i \in 1..Len(FRAUD_QUESTIONS) :
               FRAUD_QUESTIONS[i].id \in DOMAIN AnalyzerInput
        /\ \A i \in 1..4 : PaymentDetails(AnalyzerInput)[i] # <<"Not provided">>
        /\ \A i \in 1..4 :
               PaymentDetails(AnalyzerInput)[i] = AnalyzerInput[FRAUD_QUESTIONS[i].id]

\* The analyzer has just been invoked with four answers of which the second
\* is the placeholder of an abandoned question and the last a user's text.
C29_Witness ==
    /\ Answered
    /\ last.analyzer # NotCalled
    /\ JudgedValid
    /\ PaymentDetails(AnalyzerInput)[2] = RETRY_PLACEHOLDER
    /\ PaymentDetails(AnalyzerInput)[4] = last.user_message

\* The process_response calls a session took since its start_session.
RespondCalls(session_id) ==
    asked[session_id][1] + asked[session_id][2] + asked[session_id][3]
        + asked[session_id][4]

\* C30. From a fresh start, whatever the validator does call after call
\* (true, false, or a failed call), no question takes more than 3
\* process_response calls and every question the session has left took at
\* least one; a session not yet completed has had at most 2 calls at its
\* question and at most 11 in all, and a completed session was completed by
\* at least 4 and at most 12 calls.
C30_CompletesWithinTwelveCalls ==
    \A session_id \in DOMAIN sessions :
        LET session == sessions[session_id]
            at == session.current_question_index
        IN  /\ \A i \in 1..4 :
                   /\ asked[session_id][i] <= 3
                   /\ i <= at => asked[session_id][i] >= 1
                   /\ i > at + 1 => asked[session_id][i] = 0
            /\ session.completed =>
                   /\ at = 4
                   /\ RespondCalls(session_id) >= 4
                   /\ RespondCalls(session_id) <= 12
            /\ ~session.completed =>
                   /\ at < 4
                   /\ asked[session_id][at + 1] <= 2
                   /\ RespondCalls(session_id) <= 11

\* The twelfth call has just completed a session none of whose questions got
\* an answer judged valid.
C30_Witness ==
    /\ Answered
    /\ After.completed
    /\ asked[last.session_id] = <<3, 3, 3, 3>>
    /\ RespondCalls(last.session_id) = 12

\* Four valid answers completed a session in four calls.
C30_WitnessShortest ==
    /\ Answered
    /\ After.completed
    /\ asked[last.session_id] = <<1, 1, 1, 1>>

\* A key of a JSON body as its reader sees it: the value, or the default
\* where the body has no such key.
JsonGet(body, key, default) == IF key \in DOMAIN body THEN body[key] ELSE default

\* C31. After every sequence of start and respond requests with non-empty
\* ids and messages, each sent to the engine and to the Flask handlers with
\* the same validator and analyzer outcomes once the one before is answered,
\* both stores hold the same ids, each session has the same
\* current_question_index, answers, retry_count and completed in both, and
\* the two last results agree on success, message, completed and
\* fraud_analysis (a key the Flask body leaves out reading as completed false
\* and no fraud_analysis).
C31_FlaskAndEngineAgree ==
    OneAtATime =>
        /\ DOMAIN flask.sessions = DOMAIN sessions
        /\ \A session_id \in DOMAIN sessions :
               /\ flask.sessions[session_id].current_question_index =
                      sessions[session_id].current_question_index
               /\ flask.sessions[session_id].answers = sessions[session_id].answers
               /\ flask.sessions[session_id].retry_count = sessions[session_id].retry_count
               /\ flask.sessions[session_id].completed = sessions[session_id].completed
        /\ last.op \in {"start_session", "process_response"} =>
               /\ flask.response.body.success = last.result.success
               /\ flask.response.body.message = last.result.message
        /\ last.op = "start_session" =>
               flask.response.body.session_id = last.result.session_id
        /\ last.op = "process_response" =>
               /\ JsonGet(flask.response.body, "completed", FALSE) = last.result.completed
               /\ IF "fraud_analysis" \in DOMAIN flask.response.body
                  THEN last.result.fraud_analysis = Some(flask.response.body.fraud_analysis)
                  ELSE last.result.fraud_analysis = None

\* Handling one request after another, both have just completed a
\* conversation whose second question was abandoned, and returned the
\* analyzer's assessment.
C31_Witness ==
    /\ OneAtATime
    /\ Answered
    /\ After.completed
    /\ last.analyzer.kind = "reply"
    /\ After.answers["purpose_of_payment"] = RETRY_PLACEHOLDER
    /\ flask.sessions[last.session_id].completed
    /\ flask.sessions[last.session_id].current_question_index = 4
    /\ "fraud_analysis" \in DOMAIN flask.response.body
    /\ flask.response.status = 200

\* C32. In every state reached by operations that run one after another, the
\* keys of each stored session's answers are exactly the ids of the first
\* current_question_index questions of the catalog: answers are collected in
\* catalog order and no other key is stored.
C32_AnswerKeysAreCatalogPrefix ==
    \A session_id \in DOMAIN sessions :
        DOMAIN sessions[session_id].answers =
            {FRAUD_QUESTIONS[i].id : i \in 1..sessions[session_id].current_question_index}

\* A session has just been asked its third question again: it holds the
\* answers of the first two questions, the second given by the user.
C32_Witness ==
    /\ Answered
    /\ ~JudgedValid
    /\ After.current_question_index = 2
    /\ After.retry_count = 1
    /\ DOMAIN After.answers = {"payment_recipient", "purpose_of_payment"}
    /\ After.answers["purpose_of_payment"] # RETRY_PLACEHOLDER

\* C33. A run of the sweep removes exactly the sessions whose start_time is
\* below now - 3600, completed or not: the ids it leaves are those of the
\* sessions aged 3600 seconds or less, and each session it leaves has all
\* its fields as before.
C33_SweepRemovesExactlyTheOld ==
    [][Swept =>
          /\ DOMAIN sessions' =
                 {session_id \in DOMAIN sessions :
                      now - sessions[session_id].start_time <= 3600}
          /\ \A session_id \in DOMAIN sessions' :
                 sessions'[session_id] = sessions[session_id]]_vars

\* A sweep has just left in the store a session in the middle of its
\* conversation that is exactly 3600 seconds old.
C33_Witness ==
    /\ last.op = "cleanup_old_sessions"
    /\ \E session_id \in DOMAIN sessions :
           /\ now - sessions[session_id].start_time = 3600
           /\ sessions[session_id].current_question_index \in 1..3
           /\ ~sessions[session_id].completed

\* C34. A step changes the start_time of a session that stays stored only
\* when it is a start_session on its id; so a sweep run more than one hour
\* after the start of a session that is still being answered removes it;
\* and a process_response on an id whose session a sweep removed, with no
\* start since, returns the session-not-found failure and stores nothing.
C34_AnsweringDoesNotProlong ==
    [][/\ \A session_id \in (DOMAIN sessions) \cap (DOMAIN sessions') :
              sessions'[session_id].start_time # sessions[session_id].start_time =>
                  /\ last'.op = "start_session"
                  /\ last'.session_id = session_id
       /\ Swept =>
              \A session_id \in DOMAIN sessions :
                  (/\ ~sessions[session_id].completed
                   /\ now - sessions[session_id].start_time > 60 * 60) =>
                      session_id \notin DOMAIN sessions'
       /\ (last'.op = "process_response" /\ last'.session_id \in evicted) =>
              /\ last'.before = None
              /\ ~last'.result.success
              /\ last'.result.message =
                     <<"Session not found. Please refresh and start again.">>
              /\ last'.session_id \notin DOMAIN sessions']_vars

\* An answer has just been refused with session-not-found for an id whose
\* session a sweep had removed.
C34_Witness ==
    /\ Responded
    /\ last.session_id \in evicted
    /\ last.before = None
    /\ ~last.result.success
    /\ ticks > 0

\* C35. A start_session or process_response on one id leaves every other id
\* as it was: another id is stored after the step exactly if it was stored
\* before, and its session has the same current_question_index, answers,
\* retry_count, completed and start_time.
C35_OtherSessionsUntouched ==
    [][last'.op \in {"start_session", "process_response"} =>
          \A other \in ((DOMAIN sessions) \cup (DOMAIN sessions')) \ {last'.session_id} :
              /\ other \in DOMAIN sessions
              /\ other \in DOMAIN sessions'
              /\ sessions'[other].current_question_index =
                     sessions[other].current_question_index
              /\ sessions'[other].answers = sessions[other].answers
              /\ sessions'[other].retry_count = sessions[other].retry_count
              /\ sessions'[other].completed = sessions[other].completed
              /\ sessions'[other].start_time = sessions[other].start_time]_vars

\* An answer has just advanced one session while another, in the middle of
\* its retries, is stored beside it.
C35_Witness ==
    /\ Answered
    /\ After.current_question_index = Before.current_question_index + 1
    /\ \E other \in (DOMAIN sessions) \ {last.session_id} :
           /\ sessions[other].current_question_index > 0
           /\ sessions[other].retry_count > 0

\* The texts the analysis can return: the stripped replies and the fallback.
AnalysisTexts == {_perform_fraud_analysis(<<>>, a) : a \in AnalyzerOutcomes}

\* C36. A process_response result carries a fraud_analysis exactly when the
\* call found the session not completed and left it completed; every other
\* result, the acknowledgment to a completed session included, has none; and
\* no stored session holds an analysis text, as a field or among its answers.
C36_AnalysisOnlyInCompletingResult ==
    /\ Responded =>
           (last.result.fraud_analysis # None <=>
                (Answered /\ ~Before.completed /\ After.completed))
    /\ Responded /\ last.result.fraud_analysis # None =>
           last.result.fraud_analysis \subseteq AnalysisTexts
    /\ \A session_id \in DOMAIN sessions :
           /\ DOMAIN sessions[session_id] =
                  {"session_id", "current_question_index", "answers",
                   "retry_count", "completed", "start_time"}
           /\ \A q \in DOMAIN sessions[session_id].answers :
                  sessions[session_id].answers[q] \notin AnalysisTexts

\* A completed session has just been sent one more message and got the
\* acknowledgment: completed, and no fraud_analysis.
C36_Witness ==
    /\ Responded
    /\ last.before # None
    /\ Before.completed
    /\ last.result.success
    /\ last.result.completed
    /\ last.result.fraud_analysis = None

\* C37. For every successful process_response result on a session used by
\* one call after another, the result's completed flag is the completed flag
\* of the session as stored after the call; and when it is false, the message
\* is the prompt of the catalog question at the stored current_question_index
\* or the retry message for that question.
C37_ResultMatchesStoredSession ==
    (Responded /\ last.result.success) =>
        /\ last.session_id \in DOMAIN sessions
        /\ last.result.completed = After.completed
        /\ ~last.result.completed =>
               LET question == FRAUD_QUESTIONS[After.current_question_index + 1] IN
               \/ last.result.message = question.question
               \/ last.result.message =
                      <<"I need a more specific answer about ",
                        _get_question_context(question),
                        ". Could you please provide more details?">>

\* The third invalid answer to the second question has just been answered
\* with the prompt of the third, at which the session is stored.
C37_Witness ==
    /\ Answered
    /\ ~JudgedValid
    /\ Before.current_question_index = 1
    /\ Before.retry_count = 2
    /\ After.current_question_index = 2
    /\ ~last.result.completed
    /\ last.result.message = FRAUD_QUESTIONS[3].question

\* C38 as stated. When a process_response that found a session returns a
\* success, the session stored under the id at its return is the one its
\* result reports: the session it found with this answer handled, at the
\* index the result names, also when a sweep ran between its lookup and its
\* commit.
C38_AdvanceSurvivesSweep ==
    [][(/\ last' # last
        /\ last'.op = "process_response"
        /\ inflight' = None
        /\ last'.before # None
        /\ last'.result.success) =>
           LET found == CHOOSE session \in last'.before : TRUE IN
           /\ last'.session_id \in DOMAIN sessions'
           /\ sessions'[last'.session_id] =
                  IF found.completed THEN found
                  ELSE AnswerQuestion(found, last'.user_message,
                                      last'.validator, last'.analyzer).session]_vars

\* The requests that hold the engine their dependency returned.
Holders == { r \in DOMAIN threads : threads[r].engine # None }

\* Every request got the same engine.
SameEngine == \A r, q \in Holders : threads[r].engine = threads[q].engine

\* A session started through an answered request is in the store of the
\* engine of every request that arrived after the answer.
StartedIsVisible ==
    \A r \in Holders :
        \A session_id \in threads[r].earlier :
            session_id \in DOMAIN StoreOf(EngineOf(r))

\* C39. get_conversation_engine returns the same engine, and with it the same
\* store, to every request of the process under any interleaving of the
\* first calls, so a session started through one request is visible to every
\* request that comes later.
C39_OneEngineForAll ==
    /\ SameEngine
    /\ StartedIsVisible

====
